---- MODULE Spec2Model ----
(***************************************************************************)
(* A model of the SQLite Logger (src/src/sqlite_logger.c): the level gate, *)
(* the fixed-size entry cache, the batch flush to the store and the        *)
(* session life cycle.  Texts are sequences of character codes; a field of *)
(* a cache slot is the content of its char array with the trailing zero    *)
(* bytes left out.                                                         *)
(***************************************************************************)
EXTENDS Integers, Sequences, FiniteSets, TLC

\* ------------------------------------------------------------- bounds
\* Largest configured cache size explored (SL_LOG_ENTRY_CACHE_SIZE ranges over 2..MaxCacheSize).
MaxCacheSize == 3
\* Most entries one session records (SL_Log calls that pass the level gate).
MaxLog == 3
\* The same, in the runs over every level and threshold.
MaxGateLog == 2
\* The same, in the runs with a store that never fails.
MaxNoFailLog == 5

\* ------------------------------------------------------ result codes
SL_RESULT_SUCCESS == 0
SL_RESULT_NOT_INITIALIZED == -2
SL_RESULT_ALREADY_INITIALIZED == -3
EFAULT == 14
EINVAL == 22
SQLITE_OK == 0
SQLITE_ERROR == 1
SQLITE_BUSY == 5
SQLITE_NOMEM == 7
SQLITE_FULL == 13
SQLITE_CANTOPEN == 14
SQLITE_MISUSE == 21

\* -------------------------------------------------------- log levels
eSL_LogLevel_Diagnostic == 0
eSL_LogLevel_Detail == 1
eSL_LogLevel_Info == 2
eSL_LogLevel_Warning == 3
eSL_LogLevel_Error == 4
eSL_LogLevel_None == 5

LogLevels == eSL_LogLevel_Diagnostic .. eSL_LogLevel_None

\* Level strings, as character codes.
kSL_DiagnosticLevelString == <<68, 105, 97, 103, 110, 111, 115, 116, 105, 99>>
kSL_DetailLevelString == <<68, 101, 116, 97, 105, 108>>
kSL_InfoLevelString == <<73, 110, 102, 111>>
kSL_WarningLevelString == <<87, 97, 114, 110, 105, 110, 103>>
kSL_ErrorLevelString == <<69, 114, 114, 111, 114>>
kSL_NoneLevelString == <<78, 111, 110, 101>>

\* Fixed string lengths of the fields of a log entry.
SL_TIMESTAMP_STRING_LENGTH == 32
SL_MESSAGE_STRING_LENGTH == 1024
SL_LEVEL_STRING_LENGTH == 16
SL_FILE_NAME_STRING_LENGTH == 256
SL_FUNCTION_NAME_STRING_LENGTH == 256
SL_TAG_STRING_LENGTH == 128
SL_SUPPLEMENTAL_DATA_STRING_LENGTH == 1024

\* ------------------------------------------------------------- texts
\* A null pointer argument: no C string holds the character 0.
NULL == <<0>>

Max(a, b) == IF a >= b THEN a ELSE b

RECURSIVE TrimZeros(_)
\* A char array without its trailing zero bytes.
TrimZeros(bytes) ==
    IF Len(bytes) > 0 /\ bytes[Len(bytes)] = 0
    THEN TrimZeros(SubSeq(bytes, 1, Len(bytes) - 1))
    ELSE bytes

\* strncpy(dst, src, n): n bytes are written, the characters of src and then
\* zeros when src is shorter than n; the bytes of dst after the n-th stay.
StrNCpy(dst, src, n) ==
    LET len == Max(n, Len(dst))
        raw == [i \in 1..len |->
                   IF i <= n THEN (IF i <= Len(src) THEN src[i] ELSE 0)
                   ELSE dst[i]]
    IN  TrimZeros(raw)

\* The count every copy of SL_AddLogEntry passes to strncpy for a field of
\* `bound` bytes.
CopyLength(src, bound) ==
    IF Len(src) < bound - 1 THEN Len(src) ELSE bound

RECURSIVE CString(_)
\* The C string a char array holds: its bytes before the first zero.
CString(bytes) ==
    IF bytes = <<>> \/ bytes[1] = 0 THEN <<>>
    ELSE <<bytes[1]>> \o CString(Tail(bytes))

\* ------------------------------------------------------------ inputs
Timestamps == {<<50, 48, 50, 50>>}
Paths == {NULL, <<>>, <<47, 108>>}
Messages == {NULL, <<>>, <<77>>}
OptionalTexts == {NULL, <<120>>}
LineNumbers == {0}

\* Every level argument: the six levels and the nearest values outside them.
LevelArgs == (eSL_LogLevel_Diagnostic - 1) .. (eSL_LogLevel_None + 1)

\* The level arguments of the runs with a failing store.
FewLevelArgs ==
    {eSL_LogLevel_Diagnostic - 1, eSL_LogLevel_Diagnostic, eSL_LogLevel_Warning,
     eSL_LogLevel_None}

ArgsOf(messages, levels, optionals) ==
    [message : messages, level : levels, fileName : optionals,
     functionName : {<<102>>}, lineNumber : LineNumbers,
     tag : {<<116>>}, supplementalData : {NULL}]

LogArgs == ArgsOf(Messages, LevelArgs, {<<120>>})

FewLogArgs ==
    ArgsOf(Messages, {eSL_LogLevel_Diagnostic - 1, eSL_LogLevel_Info}, {<<120>>})
    \cup ArgsOf({<<77>>}, {eSL_LogLevel_Error}, {NULL})

\* A zeroed cache slot (tSL_LogEntry after memset).
ZeroEntry ==
    [timestamp |-> <<>>, message |-> <<>>, level |-> <<>>, fileName |-> <<>>,
     functionName |-> <<>>, lineNumber |-> 0, tag |-> <<>>,
     supplementalData |-> <<>>]


\* ------------------------------------------------------------- state
VARIABLES
    SL_LOG_ENTRY_CACHE_SIZE,  \* the configured cache size N, fixed for a run
    gSQLiteDatabase,          \* "NULL", "open", or "sick" (the handle a failed open leaves)
    gInsertStatement,         \* "NULL", "ready" (reset), or "stepped" (stepped, not reset)
    gLogLevel,                \* the threshold
    gLogEntries,              \* the cache: slot index 0..N-1 -> entry
    gLogEntryCount,           \* the number of occupied slots
    dbRows,                   \* the committed rows of the session's table, in rowid order
    dbTxnOpen,                \* a transaction is open on the connection
    storeCalls,               \* the store calls the last public call made, in order
    lastCall,                 \* the last public call: its name, result and level
    accepted                  \* the entries the session's successful SL_Log calls recorded, in call order

vars ==
    <<SL_LOG_ENTRY_CACHE_SIZE, gSQLiteDatabase, gInsertStatement, gLogLevel,
      gLogEntries, gLogEntryCount, dbRows, dbTxnOpen,
      storeCalls, lastCall, accepted>>

Slots == 0 .. (SL_LOG_ENTRY_CACHE_SIZE - 1)

\* memset(gLogEntries, 0, sizeof(tSL_LogEntry) * SL_LOG_ENTRY_CACHE_SIZE)
ZeroEntries(entries) == [i \in DOMAIN entries |-> ZeroEntry]

NoLevel == eSL_LogLevel_Diagnostic - 1

Call(op, result, level) == [op |-> op, result |-> result, level |-> level]

\* A call to the store: the operation, the cache slot and statement column it
\* is for (0 when it has none), and the code the store returned.
StoreCall(op, row, col, rc) == [op |-> op, row |-> row, col |-> col, rc |-> rc]

\* ------------------------------------------------------------ faults
\* The store operation that fails during a public call, if any.
NoFault == [op |-> "none", row |-> 0, col |-> 0]

BindColumns == 1 .. 8

\* The columns at which a bind is made to fail: the first, an optional
\* text, the integer and the last.
BindFaultColumns == {1, 4, 6, 8}

\* The faults a flush of `count` rows can meet.  With "step_rolledback" the
\* step fails and the store rolls the transaction back itself, so that the
\* ROLLBACK sent afterwards fails too.
FlushFaults(count) ==
    {NoFault}
    \cup [op : {"begin", "commit_busy", "commit_full"}, row : {0}, col : {0}]
    \cup [op : {"bind"}, row : 0 .. (count - 1), col : BindFaultColumns]
    \cup [op : {"step", "step_rolledback", "reset"}, row : 0 .. (count - 1), col : {0}]

InitFaults ==
    {NoFault}
    \cup [op : {"open", "open_nomem", "table", "prepare"}, row : {0}, col : {0}]
    \cup [op : {"view"}, row : 1 .. 5, col : {0}]

\* The native code the store returns for a failing operation.
FaultCode(fault) ==
    CASE fault.op = "begin" -> SQLITE_BUSY
      [] fault.op = "commit_busy" -> SQLITE_BUSY
      [] fault.op = "commit_full" -> SQLITE_FULL
      [] fault.op = "bind" -> SQLITE_NOMEM
      [] fault.op = "step" -> SQLITE_FULL
      [] fault.op = "step_rolledback" -> SQLITE_FULL
      [] fault.op = "reset" -> SQLITE_FULL
      [] fault.op = "open" -> SQLITE_CANTOPEN
      [] fault.op = "open_nomem" -> SQLITE_NOMEM
      [] OTHER -> SQLITE_ERROR

\* --------------------------------------------------- SL_AddLogEntry
\* A variant of the chain whose last two branches are exchanged.
LevelString_ErrorAsNone(level) ==
    IF level = eSL_LogLevel_Diagnostic THEN kSL_DiagnosticLevelString
    ELSE IF level = eSL_LogLevel_Detail THEN kSL_DetailLevelString
    ELSE IF level = eSL_LogLevel_Info THEN kSL_InfoLevelString
    ELSE IF level = eSL_LogLevel_Warning THEN kSL_WarningLevelString
    ELSE IF level = eSL_LogLevel_Error THEN kSL_NoneLevelString
    ELSE kSL_ErrorLevelString

\* The level string SL_AddLogEntry copies for a level.
LevelString(level) ==
    IF level = eSL_LogLevel_Diagnostic THEN kSL_DiagnosticLevelString
    ELSE IF level = eSL_LogLevel_Detail THEN kSL_DetailLevelString
    ELSE IF level = eSL_LogLevel_Info THEN kSL_InfoLevelString
    ELSE IF level = eSL_LogLevel_Warning THEN kSL_WarningLevelString
    ELSE IF level = eSL_LogLevel_Error THEN kSL_ErrorLevelString
    ELSE kSL_NoneLevelString

CopyField(dst, src, bound) == StrNCpy(dst, src, CopyLength(src, bound))

CopyOptionalField(dst, src, bound) ==
    IF src # NULL THEN CopyField(dst, src, bound) ELSE dst

\* The slot gLogEntries[gLogEntryCount] after the copies of SL_AddLogEntry.
FilledEntry(slot, a, ts) ==
    [timestamp |-> ts,
     message |-> CopyField(slot.message, a.message, SL_MESSAGE_STRING_LENGTH),
     level |-> CopyField(slot.level, LevelString(a.level), SL_LEVEL_STRING_LENGTH),
     fileName |-> CopyOptionalField(slot.fileName, a.fileName, SL_FILE_NAME_STRING_LENGTH),
     functionName |-> CopyOptionalField(slot.functionName, a.functionName,
                                        SL_FUNCTION_NAME_STRING_LENGTH),
     lineNumber |-> a.lineNumber,
     tag |-> CopyOptionalField(slot.tag, a.tag, SL_TAG_STRING_LENGTH),
     supplementalData |-> CopyOptionalField(slot.supplementalData, a.supplementalData,
                                            SL_SUPPLEMENTAL_DATA_STRING_LENGTH)]

\* A variant that writes every entry to the first slot.
SL_AddLogEntry_AtFirstSlot(entries, count, a, ts) ==
    [entries |-> [entries EXCEPT ![0] = FilledEntry(entries[0], a, ts)],
     count |-> count + 1]

\* SL_AddLogEntry: the cache and the count after the entry is added.
SL_AddLogEntry(entries, count, a, ts) ==
    [entries |-> [entries EXCEPT ![count] = FilledEntry(entries[count], a, ts)],
     count |-> count + 1]


\* ---------------------------------------------- SL_ProcessTransaction
\* gLogEntries[i].fileName == NULL compares the address of a member array
\* with NULL: it never holds, so every optional column is bound as text.
FieldIsNull(field) == FALSE

BoundValue(field) == IF FieldIsNull(field) THEN NULL ELSE CString(field)

\* The eight column values the insert statement takes from a slot.
RowOf(e) ==
    [timestamp |-> CString(e.timestamp),
     message |-> CString(e.message),
     level |-> CString(e.level),
     fileName |-> BoundValue(e.fileName),
     functionName |-> BoundValue(e.functionName),
     lineNumber |-> e.lineNumber,
     tag |-> BoundValue(e.tag),
     supplementalData |-> BoundValue(e.supplementalData)]

\* A variant that leaves the last column of every row unbound.
BindRow_SevenColumns(i, stmt, fault) ==
    [result |-> IF stmt # "ready" THEN SQLITE_MISUSE ELSE SQLITE_OK,
     calls |-> [c \in 1..7 |->
                   StoreCall("bind", i, c,
                             IF stmt # "ready" /\ c = 1 THEN SQLITE_MISUSE ELSE SQLITE_OK)]]

\* The binds of row i: the columns in order, up to the first that fails.
\* A bind on a null statement, or on one stepped and not reset, is a misuse.
BindRow(i, stmt, fault) ==
    LET failing == IF stmt # "ready" THEN 1
                   ELSE IF fault.op = "bind" /\ fault.row = i THEN fault.col
                   ELSE 0
        last == IF failing = 0 THEN 8 ELSE failing
        code == IF failing = 0 THEN SQLITE_OK
                ELSE IF stmt # "ready" THEN SQLITE_MISUSE
                ELSE FaultCode(fault)
    IN  [result |-> code,
         calls |-> [c \in 1..last |->
                       StoreCall("bind", i, c, IF c = failing THEN code ELSE SQLITE_OK)]]

RECURSIVE InsertRows_NewestFirst(_, _, _, _, _, _, _)
\* A variant of the loop that puts each inserted row before the earlier ones.
InsertRows_NewestFirst(i, count, entries, stmt, fault, pending, calls) ==
    IF i >= count
    THEN [result |-> SQLITE_OK, stmt |-> stmt, pending |-> pending, calls |-> calls]
    ELSE
        LET b == BindRow(i, stmt, fault)
            step == StoreCall("step", i, 0, SQLITE_OK)
            reset == StoreCall("reset", i, 0, SQLITE_OK)
        IN  IF b.result # SQLITE_OK
            THEN [result |-> b.result, stmt |-> stmt, pending |-> pending,
                  calls |-> calls \o b.calls]
            ELSE IF fault.op \in {"step", "step_rolledback"} /\ fault.row = i
            THEN [result |-> FaultCode(fault), stmt |-> "stepped", pending |-> pending,
                  calls |-> calls \o b.calls
                            \o <<StoreCall("step", i, 0, FaultCode(fault))>>]
            ELSE IF fault.op = "reset" /\ fault.row = i
            THEN [result |-> FaultCode(fault), stmt |-> "ready",
                  pending |-> <<RowOf(entries[i])>> \o pending,
                  calls |-> calls \o b.calls
                            \o <<step, StoreCall("reset", i, 0, FaultCode(fault))>>]
            ELSE InsertRows_NewestFirst(i + 1, count, entries, "ready", fault,
                                        <<RowOf(entries[i])>> \o pending,
                                        calls \o b.calls \o <<step, reset>>)

RECURSIVE InsertRows(_, _, _, _, _, _, _)
\* The loop over the occupied slots: bind, step, reset, break at the first failure.
InsertRows(i, count, entries, stmt, fault, pending, calls) ==
    IF i >= count
    THEN [result |-> SQLITE_OK, stmt |-> stmt, pending |-> pending, calls |-> calls]
    ELSE
        LET b == BindRow(i, stmt, fault)
            step == StoreCall("step", i, 0, SQLITE_OK)
            reset == StoreCall("reset", i, 0, SQLITE_OK)
        IN  IF b.result # SQLITE_OK
            THEN [result |-> b.result, stmt |-> stmt, pending |-> pending,
                  calls |-> calls \o b.calls]
            ELSE IF fault.op \in {"step", "step_rolledback"} /\ fault.row = i
            THEN [result |-> FaultCode(fault), stmt |-> "stepped", pending |-> pending,
                  calls |-> calls \o b.calls
                            \o <<StoreCall("step", i, 0, FaultCode(fault))>>]
            ELSE IF fault.op = "reset" /\ fault.row = i
            THEN [result |-> FaultCode(fault), stmt |-> "ready",
                  pending |-> Append(pending, RowOf(entries[i])),
                  calls |-> calls \o b.calls
                            \o <<step, StoreCall("reset", i, 0, FaultCode(fault))>>]
            ELSE InsertRows(i + 1, count, entries, "ready", fault,
                            Append(pending, RowOf(entries[i])),
                            calls \o b.calls \o <<step, reset>>)

\* The code of the ROLLBACK sent after a failed loop: an error when the store
\* has rolled the transaction back already.
RollbackResult(loop, fault) ==
    IF loop.stmt = "stepped" /\ fault.op = "step_rolledback"
    THEN SQLITE_ERROR
    ELSE SQLITE_OK

\* A variant of SL_ProcessTransaction that commits an empty transaction.
SL_ProcessTransaction_InsertsNothing(db, stmt, txnOpen, rows, entries, count, fault) ==
    [result |-> SQLITE_OK, stmt |-> stmt, txnOpen |-> FALSE, rows |-> rows,
     calls |-> <<StoreCall("BEGIN", 0, 0, SQLITE_OK),
                 StoreCall("COMMIT", 0, 0, SQLITE_OK)>>]

\* A variant of SL_ProcessTransaction that returns the code of the ROLLBACK
\* when the ROLLBACK fails.
SL_ProcessTransaction_ReturnsRollback(db, stmt, txnOpen, rows, entries, count, fault) ==
    LET beginResult ==
            IF db # "open" THEN SQLITE_MISUSE
            ELSE IF txnOpen THEN SQLITE_ERROR
            ELSE IF fault.op = "begin" THEN FaultCode(fault)
            ELSE SQLITE_OK
        begin == <<StoreCall("BEGIN", 0, 0, beginResult)>>
    IN  IF beginResult # SQLITE_OK
        THEN [result |-> beginResult, stmt |-> stmt, txnOpen |-> txnOpen,
              rows |-> rows, calls |-> begin]
        ELSE
            LET loop == InsertRows(0, count, entries, stmt, fault, <<>>, begin)
                rollback == RollbackResult(loop, fault)
            IN  IF loop.result = SQLITE_OK
                THEN IF fault.op \in {"commit_busy", "commit_full"}
                     THEN [result |-> FaultCode(fault), stmt |-> loop.stmt,
                           txnOpen |-> (fault.op = "commit_busy"), rows |-> rows,
                           calls |-> Append(loop.calls,
                                            StoreCall("COMMIT", 0, 0, FaultCode(fault)))]
                     ELSE [result |-> SQLITE_OK, stmt |-> loop.stmt,
                           txnOpen |-> FALSE, rows |-> rows \o loop.pending,
                           calls |-> Append(loop.calls,
                                            StoreCall("COMMIT", 0, 0, SQLITE_OK))]
                ELSE [result |-> IF rollback # SQLITE_OK THEN rollback ELSE loop.result,
                      stmt |-> loop.stmt, txnOpen |-> FALSE, rows |-> rows,
                      calls |-> Append(loop.calls,
                                       StoreCall("ROLLBACK", 0, 0, rollback))]

\* A variant of SL_ProcessTransaction that ends the transaction of a failed
\* batch with COMMIT, keeping the rows inserted before the failure.
SL_ProcessTransaction_KeepsPartial(db, stmt, txnOpen, rows, entries, count, fault) ==
    LET beginResult ==
            IF db # "open" THEN SQLITE_MISUSE
            ELSE IF txnOpen THEN SQLITE_ERROR
            ELSE IF fault.op = "begin" THEN FaultCode(fault)
            ELSE SQLITE_OK
        begin == <<StoreCall("BEGIN", 0, 0, beginResult)>>
    IN  IF beginResult # SQLITE_OK
        THEN [result |-> beginResult, stmt |-> stmt, txnOpen |-> txnOpen,
              rows |-> rows, calls |-> begin]
        ELSE
            LET loop == InsertRows(0, count, entries, stmt, fault, <<>>, begin)
            IN  IF loop.result = SQLITE_OK /\ fault.op \in {"commit_busy", "commit_full"}
                THEN [result |-> FaultCode(fault), stmt |-> loop.stmt,
                      txnOpen |-> (fault.op = "commit_busy"), rows |-> rows,
                      calls |-> Append(loop.calls,
                                       StoreCall("COMMIT", 0, 0, FaultCode(fault)))]
                ELSE [result |-> loop.result, stmt |-> loop.stmt,
                      txnOpen |-> FALSE, rows |-> rows \o loop.pending,
                      calls |-> Append(loop.calls,
                                       StoreCall("COMMIT", 0, 0, SQLITE_OK))]

\* SL_ProcessTransaction: the result, the statement, the store and the store
\* calls made. BEGIN fails on a sick handle and inside an open transaction;
\* a failed COMMIT leaves the transaction open ("commit_busy") or the store
\* has rolled it back itself ("commit_full").
SL_ProcessTransaction(db, stmt, txnOpen, rows, entries, count, fault) ==
    LET beginResult ==
            IF db # "open" THEN SQLITE_MISUSE
            ELSE IF txnOpen THEN SQLITE_ERROR
            ELSE IF fault.op = "begin" THEN FaultCode(fault)
            ELSE SQLITE_OK
        begin == <<StoreCall("BEGIN", 0, 0, beginResult)>>
    IN  IF beginResult # SQLITE_OK
        THEN [result |-> beginResult, stmt |-> stmt, txnOpen |-> txnOpen,
              rows |-> rows, calls |-> begin]
        ELSE
            LET loop == InsertRows(0, count, entries, stmt, fault, <<>>, begin)
            IN  IF loop.result = SQLITE_OK
                THEN IF fault.op \in {"commit_busy", "commit_full"}
                     THEN [result |-> FaultCode(fault), stmt |-> loop.stmt,
                           txnOpen |-> (fault.op = "commit_busy"), rows |-> rows,
                           calls |-> Append(loop.calls,
                                            StoreCall("COMMIT", 0, 0, FaultCode(fault)))]
                     ELSE [result |-> SQLITE_OK, stmt |-> loop.stmt,
                           txnOpen |-> FALSE, rows |-> rows \o loop.pending,
                           calls |-> Append(loop.calls,
                                            StoreCall("COMMIT", 0, 0, SQLITE_OK))]
                ELSE [result |-> loop.result, stmt |-> loop.stmt,
                      txnOpen |-> FALSE, rows |-> rows,
                      calls |-> Append(loop.calls,
                                       StoreCall("ROLLBACK", 0, 0,
                                                 RollbackResult(loop, fault)))]

\* ---------------------------------------------------------- SL_Log
\* The argument checks of SL_Log: the message, then the level.
LogArgResult(a) ==
    LET messageResult == IF a.message = NULL THEN EFAULT
                         ELSE IF Len(a.message) = 0 THEN EINVAL
                         ELSE SL_RESULT_SUCCESS
    IN  IF (a.level < eSL_LogLevel_Diagnostic) \/ (a.level > eSL_LogLevel_None)
        THEN EINVAL
        ELSE messageResult

\* A variant of the gate that asks for a level above the threshold.
ShouldCapture_Strict(level, threshold) == level > threshold

\* A variant of the gate that lets every level pass.
ShouldCapture_Always(level, threshold) == TRUE

\* The level gate: level >= gLogLevel.
ShouldCapture(level, threshold) == level >= threshold

\* Variants of the test that flush one entry late and one entry early.
CacheHasRoom_Late(count, size) == count < size

CacheHasRoom_Early(count, size) == count < size - 2

\* The cache takes the entry without a flush: gLogEntryCount < SL_LOG_ENTRY_CACHE_SIZE - 1.
CacheHasRoom(count, size) == count < size - 1

\* A variant that clears the cache and adds the entry whatever the flush returned.
AfterFlush_AddsAlways(pt, entries, count, a, ts) ==
    SL_AddLogEntry(ZeroEntries(entries), 0, a, ts)

\* A variant that resets the count after a flush but leaves the slots as they are.
AfterFlush_LeavesSlots(pt, entries, count, a, ts) ==
    IF pt.result = SL_RESULT_SUCCESS
    THEN SL_AddLogEntry(entries, 0, a, ts)
    ELSE [entries |-> entries, count |-> count]

\* A variant that adds the new entry after the flushed ones without clearing.
AfterFlush_KeepsCount(pt, entries, count, a, ts) ==
    IF pt.result = SL_RESULT_SUCCESS
    THEN SL_AddLogEntry(entries, count, a, ts)
    ELSE [entries |-> entries, count |-> count]

\* What SL_Log does with the cache after SL_ProcessTransaction returned pt.
AfterFlush(pt, entries, count, a, ts) ==
    IF pt.result = SL_RESULT_SUCCESS
    THEN SL_AddLogEntry(ZeroEntries(entries), 0, a, ts)
    ELSE [entries |-> entries, count |-> count]

\* An entry that passed the gate: added at once, or after a flush of the full cache.
CaptureEntry(size, db, stmt, txnOpen, rows, entries, count, a, ts, fault) ==
    IF CacheHasRoom(count, size)
    THEN LET add == SL_AddLogEntry(entries, count, a, ts)
         IN  [result |-> SL_RESULT_SUCCESS, entries |-> add.entries, count |-> add.count,
              stmt |-> stmt, txnOpen |-> txnOpen, rows |-> rows, calls |-> <<>>]
    ELSE LET pt == SL_ProcessTransaction(db, stmt, txnOpen, rows, entries, count, fault)
             after == AfterFlush(pt, entries, count, a, ts)
         IN  [result |-> pt.result, entries |-> after.entries, count |-> after.count,
              stmt |-> pt.stmt, txnOpen |-> pt.txnOpen, rows |-> pt.rows,
              calls |-> pt.calls]

\* A variant that captures without looking at the handle.
SL_Log_SkipsSessionCheck(a, ts, fault) ==
    LET argResult == LogArgResult(a)
        captured == /\ argResult = SL_RESULT_SUCCESS
                    /\ ShouldCapture(a.level, gLogLevel)
    IN  /\ IF captured
           THEN LET out == CaptureEntry(SL_LOG_ENTRY_CACHE_SIZE, gSQLiteDatabase,
                                        gInsertStatement, dbTxnOpen, dbRows,
                                        gLogEntries, gLogEntryCount, a, ts, fault)
                IN  /\ gLogEntries' = out.entries
                    /\ gLogEntryCount' = out.count
                    /\ gInsertStatement' = out.stmt
                    /\ dbTxnOpen' = out.txnOpen
                    /\ dbRows' = out.rows
                    /\ storeCalls' = out.calls
                    /\ lastCall' = Call("SL_Log", out.result, a.level)
                    /\ accepted' = IF out.result = SL_RESULT_SUCCESS
                                   THEN Append(accepted, out.entries[out.count - 1])
                                   ELSE accepted
           ELSE /\ lastCall' = Call("SL_Log", argResult,
                                    IF argResult = SL_RESULT_SUCCESS
                                    THEN a.level ELSE NoLevel)
                /\ storeCalls' = <<>>
                /\ UNCHANGED <<gLogEntries, gLogEntryCount, gInsertStatement,
                               dbTxnOpen, dbRows, accepted>>
        /\ UNCHANGED <<SL_LOG_ENTRY_CACHE_SIZE, gSQLiteDatabase, gLogLevel>>

SL_Log(a, ts, fault) ==
    LET argResult == LogArgResult(a)
        captured == /\ argResult = SL_RESULT_SUCCESS
                    /\ gSQLiteDatabase # "NULL"
                    /\ ShouldCapture(a.level, gLogLevel)
    IN  /\ IF captured
           THEN LET out == CaptureEntry(SL_LOG_ENTRY_CACHE_SIZE, gSQLiteDatabase,
                                        gInsertStatement, dbTxnOpen, dbRows,
                                        gLogEntries, gLogEntryCount, a, ts, fault)
                IN  /\ gLogEntries' = out.entries
                    /\ gLogEntryCount' = out.count
                    /\ gInsertStatement' = out.stmt
                    /\ dbTxnOpen' = out.txnOpen
                    /\ dbRows' = out.rows
                    /\ storeCalls' = out.calls
                    /\ lastCall' = Call("SL_Log", out.result, a.level)
                    /\ accepted' = IF out.result = SL_RESULT_SUCCESS
                                   THEN Append(accepted, out.entries[out.count - 1])
                                   ELSE accepted
           ELSE /\ lastCall' = Call("SL_Log",
                                    IF argResult # SL_RESULT_SUCCESS THEN argResult
                                    ELSE IF gSQLiteDatabase = "NULL"
                                         THEN SL_RESULT_NOT_INITIALIZED
                                    ELSE SL_RESULT_SUCCESS,
                                    IF argResult = SL_RESULT_SUCCESS
                                       /\ gSQLiteDatabase # "NULL"
                                    THEN a.level ELSE NoLevel)
                /\ storeCalls' = <<>>
                /\ UNCHANGED <<gLogEntries, gLogEntryCount, gInsertStatement,
                               dbTxnOpen, dbRows, accepted>>
        /\ UNCHANGED <<SL_LOG_ENTRY_CACHE_SIZE, gSQLiteDatabase, gLogLevel>>

\* ---------------------------------------------------- SL_Initialize
InitArgResult(path) ==
    IF path = NULL THEN EFAULT
    ELSE IF Len(path) = 0 THEN EINVAL
    ELSE SL_RESULT_SUCCESS

\* A variant of the steps that zeroes the cache as soon as the store is open.
InitializeSteps_ZeroesAfterOpen(entries, fault) ==
    LET code == FaultCode(fault)
        open == <<StoreCall("open", 0, 0, SQLITE_OK)>>
        table == Append(open, StoreCall("create_table", 0, 0, SQLITE_OK))
        views(k) == table \o [v \in 1..k |-> StoreCall("create_view", v, 0, SQLITE_OK)]
    IN  IF fault.op \in {"open", "open_nomem"}
        THEN [result |-> code, db |-> IF fault.op = "open" THEN "sick" ELSE "NULL",
              stmt |-> "NULL", entries |-> entries,
              calls |-> <<StoreCall("open", 0, 0, code)>>]
        ELSE IF fault.op = "table"
        THEN [result |-> code, db |-> "open", stmt |-> "NULL",
              entries |-> ZeroEntries(entries),
              calls |-> Append(open, StoreCall("create_table", 0, 0, code))]
        ELSE IF fault.op = "view"
        THEN [result |-> code, db |-> "open", stmt |-> "NULL",
              entries |-> ZeroEntries(entries),
              calls |-> Append(views(fault.row - 1),
                               StoreCall("create_view", fault.row, 0, code))]
        ELSE IF fault.op = "prepare"
        THEN [result |-> code, db |-> "open", stmt |-> "NULL",
              entries |-> ZeroEntries(entries),
              calls |-> Append(views(5), StoreCall("prepare", 0, 0, code))]
        ELSE [result |-> SQLITE_OK, db |-> "open", stmt |-> "ready",
              entries |-> ZeroEntries(entries),
              calls |-> Append(views(5), StoreCall("prepare", 0, 0, SQLITE_OK))]

\* The steps of SL_Initialize after the checks: open, the table, the five
\* views, the cache, the insert statement; each runs only if all before it
\* succeeded. The table is named by the time of the call, so it is a new one.
InitializeSteps(entries, fault) ==
    LET code == FaultCode(fault)
        open == <<StoreCall("open", 0, 0, SQLITE_OK)>>
        table == Append(open, StoreCall("create_table", 0, 0, SQLITE_OK))
        views(k) == table \o [v \in 1..k |-> StoreCall("create_view", v, 0, SQLITE_OK)]
    IN  IF fault.op \in {"open", "open_nomem"}
        THEN [result |-> code, db |-> IF fault.op = "open" THEN "sick" ELSE "NULL",
              stmt |-> "NULL", entries |-> entries,
              calls |-> <<StoreCall("open", 0, 0, code)>>]
        ELSE IF fault.op = "table"
        THEN [result |-> code, db |-> "open", stmt |-> "NULL", entries |-> entries,
              calls |-> Append(open, StoreCall("create_table", 0, 0, code))]
        ELSE IF fault.op = "view"
        THEN [result |-> code, db |-> "open", stmt |-> "NULL", entries |-> entries,
              calls |-> Append(views(fault.row - 1),
                               StoreCall("create_view", fault.row, 0, code))]
        ELSE IF fault.op = "prepare"
        THEN [result |-> code, db |-> "open", stmt |-> "NULL",
              entries |-> ZeroEntries(entries),
              calls |-> Append(views(5), StoreCall("prepare", 0, 0, code))]
        ELSE [result |-> SQLITE_OK, db |-> "open", stmt |-> "ready",
              entries |-> ZeroEntries(entries),
              calls |-> Append(views(5), StoreCall("prepare", 0, 0, SQLITE_OK))]

\* A variant that looks at the handle before it looks at the path.
SL_Initialize_ChecksStateFirst(path, fault) ==
    LET argResult == InitArgResult(path)
        opens == argResult = SL_RESULT_SUCCESS /\ gSQLiteDatabase = "NULL"
    IN  /\ IF opens
           THEN LET out == InitializeSteps(gLogEntries, fault)
                IN  /\ gSQLiteDatabase' = out.db
                    /\ gInsertStatement' = out.stmt
                    /\ gLogEntries' = out.entries
                    /\ dbRows' = <<>>
                    /\ accepted' = <<>>
                    /\ storeCalls' = out.calls
                    /\ lastCall' = Call("SL_Initialize", out.result, NoLevel)
           ELSE /\ lastCall' = Call("SL_Initialize",
                                    IF gSQLiteDatabase # "NULL"
                                    THEN SL_RESULT_ALREADY_INITIALIZED
                                    ELSE argResult,
                                    NoLevel)
                /\ storeCalls' = <<>>
                /\ UNCHANGED <<gSQLiteDatabase, gInsertStatement, gLogEntries,
                               dbRows, accepted>>
        /\ UNCHANGED <<SL_LOG_ENTRY_CACHE_SIZE, gLogLevel, gLogEntryCount, dbTxnOpen>>

\* A variant that opens the store whether or not a handle is held.
SL_Initialize_Reopens(path, fault) ==
    LET argResult == InitArgResult(path)
        opens == argResult = SL_RESULT_SUCCESS
    IN  /\ IF opens
           THEN LET out == InitializeSteps(gLogEntries, fault)
                IN  /\ gSQLiteDatabase' = out.db
                    /\ gInsertStatement' = out.stmt
                    /\ gLogEntries' = out.entries
                    /\ dbRows' = <<>>
                    /\ accepted' = <<>>
                    /\ storeCalls' = out.calls
                    /\ lastCall' = Call("SL_Initialize", out.result, NoLevel)
           ELSE /\ lastCall' = Call("SL_Initialize", argResult, NoLevel)
                /\ storeCalls' = <<>>
                /\ UNCHANGED <<gSQLiteDatabase, gInsertStatement, gLogEntries,
                               dbRows, accepted>>
        /\ UNCHANGED <<SL_LOG_ENTRY_CACHE_SIZE, gLogLevel, gLogEntryCount, dbTxnOpen>>

SL_Initialize(path, fault) ==
    LET argResult == InitArgResult(path)
        opens == argResult = SL_RESULT_SUCCESS /\ gSQLiteDatabase = "NULL"
    IN  /\ IF opens
           THEN LET out == InitializeSteps(gLogEntries, fault)
                IN  /\ gSQLiteDatabase' = out.db
                    /\ gInsertStatement' = out.stmt
                    /\ gLogEntries' = out.entries
                    /\ dbRows' = <<>>
                    /\ accepted' = <<>>
                    /\ storeCalls' = out.calls
                    /\ lastCall' = Call("SL_Initialize", out.result, NoLevel)
           ELSE /\ lastCall' = Call("SL_Initialize",
                                    IF argResult # SL_RESULT_SUCCESS THEN argResult
                                    ELSE SL_RESULT_ALREADY_INITIALIZED,
                                    NoLevel)
                /\ storeCalls' = <<>>
                /\ UNCHANGED <<gSQLiteDatabase, gInsertStatement, gLogEntries,
                               dbRows, accepted>>
        /\ UNCHANGED <<SL_LOG_ENTRY_CACHE_SIZE, gLogLevel, gLogEntryCount, dbTxnOpen>>

\* ----------------------------------------------------- SL_Terminate
\* A variant that clears the cache whatever the flush returned.
AfterTerminateFlush_ClearsAlways(pt, entries, count) ==
    [entries |-> ZeroEntries(entries), count |-> 0]

\* The cache after the flush of SL_Terminate returned pt.
AfterTerminateFlush(pt, entries, count) ==
    IF pt.result = SL_RESULT_SUCCESS
    THEN [entries |-> ZeroEntries(entries), count |-> 0]
    ELSE [entries |-> entries, count |-> count]

\* A variant that returns before releasing anything when the flush failed.
SL_Terminate_KeepsHandle(fault) ==
    IF gSQLiteDatabase # "NULL"
    THEN LET flushes == gLogEntryCount > 0
             pt == IF flushes
                   THEN SL_ProcessTransaction(gSQLiteDatabase, gInsertStatement,
                                              dbTxnOpen, dbRows, gLogEntries,
                                              gLogEntryCount, fault)
                   ELSE [result |-> SL_RESULT_SUCCESS, stmt |-> gInsertStatement,
                         txnOpen |-> dbTxnOpen, rows |-> dbRows, calls |-> <<>>]
             after == IF flushes
                      THEN AfterTerminateFlush(pt, gLogEntries, gLogEntryCount)
                      ELSE [entries |-> gLogEntries, count |-> gLogEntryCount]
             released == pt.result = SL_RESULT_SUCCESS
         IN  /\ gLogEntries' = after.entries
             /\ gLogEntryCount' = after.count
             /\ dbRows' = pt.rows
             /\ gInsertStatement' = IF released THEN "NULL" ELSE pt.stmt
             /\ gSQLiteDatabase' = IF released THEN "NULL" ELSE gSQLiteDatabase
             /\ dbTxnOpen' = IF released THEN FALSE ELSE pt.txnOpen
             /\ storeCalls' = IF released
                              THEN pt.calls
                                   \o (IF gInsertStatement # "NULL"
                                       THEN <<StoreCall("finalize", 0, 0, SQLITE_OK)>>
                                       ELSE <<>>)
                                   \o <<StoreCall("close", 0, 0, SQLITE_OK)>>
                              ELSE pt.calls
             /\ lastCall' = Call("SL_Terminate", pt.result, NoLevel)
             /\ UNCHANGED <<SL_LOG_ENTRY_CACHE_SIZE, gLogLevel, accepted>>
    ELSE /\ lastCall' = Call("SL_Terminate", SL_RESULT_NOT_INITIALIZED, NoLevel)
         /\ storeCalls' = <<>>
         /\ UNCHANGED <<SL_LOG_ENTRY_CACHE_SIZE, gSQLiteDatabase, gInsertStatement,
                        gLogLevel, gLogEntries, gLogEntryCount, dbRows, dbTxnOpen,
                        accepted>>

\* A variant that finalizes the statement and closes the handle before the flush.
SL_Terminate_ClosesFirst(fault) ==
    IF gSQLiteDatabase # "NULL"
    THEN LET flushes == gLogEntryCount > 0
             pt == IF flushes
                   THEN SL_ProcessTransaction("NULL", "NULL", FALSE, dbRows,
                                              gLogEntries, gLogEntryCount, fault)
                   ELSE [result |-> SL_RESULT_SUCCESS, stmt |-> gInsertStatement,
                         txnOpen |-> dbTxnOpen, rows |-> dbRows, calls |-> <<>>]
             after == IF flushes
                      THEN AfterTerminateFlush(pt, gLogEntries, gLogEntryCount)
                      ELSE [entries |-> gLogEntries, count |-> gLogEntryCount]
         IN  /\ gLogEntries' = after.entries
             /\ gLogEntryCount' = after.count
             /\ dbRows' = pt.rows
             /\ gInsertStatement' = "NULL"
             /\ gSQLiteDatabase' = "NULL"
             /\ dbTxnOpen' = FALSE
             /\ storeCalls' = (IF gInsertStatement # "NULL"
                               THEN <<StoreCall("finalize", 0, 0, SQLITE_OK)>>
                               ELSE <<>>)
                              \o <<StoreCall("close", 0, 0, SQLITE_OK)>>
                              \o pt.calls
             /\ lastCall' = Call("SL_Terminate", pt.result, NoLevel)
             /\ UNCHANGED <<SL_LOG_ENTRY_CACHE_SIZE, gLogLevel, accepted>>
    ELSE /\ lastCall' = Call("SL_Terminate", SL_RESULT_NOT_INITIALIZED, NoLevel)
         /\ storeCalls' = <<>>
         /\ UNCHANGED <<SL_LOG_ENTRY_CACHE_SIZE, gSQLiteDatabase, gInsertStatement,
                        gLogLevel, gLogEntries, gLogEntryCount, dbRows, dbTxnOpen,
                        accepted>>

SL_Terminate(fault) ==
    IF gSQLiteDatabase # "NULL"
    THEN LET flushes == gLogEntryCount > 0
             pt == IF flushes
                   THEN SL_ProcessTransaction(gSQLiteDatabase, gInsertStatement,
                                              dbTxnOpen, dbRows, gLogEntries,
                                              gLogEntryCount, fault)
                   ELSE [result |-> SL_RESULT_SUCCESS, stmt |-> gInsertStatement,
                         txnOpen |-> dbTxnOpen, rows |-> dbRows, calls |-> <<>>]
             after == IF flushes
                      THEN AfterTerminateFlush(pt, gLogEntries, gLogEntryCount)
                      ELSE [entries |-> gLogEntries, count |-> gLogEntryCount]
         IN  /\ gLogEntries' = after.entries
             /\ gLogEntryCount' = after.count
             /\ dbRows' = pt.rows
             /\ gInsertStatement' = "NULL"
             /\ gSQLiteDatabase' = "NULL"
             /\ dbTxnOpen' = FALSE
             /\ storeCalls' = pt.calls
                              \o (IF gInsertStatement # "NULL"
                                  THEN <<StoreCall("finalize", 0, 0, SQLITE_OK)>>
                                  ELSE <<>>)
                              \o <<StoreCall("close", 0, 0, SQLITE_OK)>>
             /\ lastCall' = Call("SL_Terminate", pt.result, NoLevel)
             /\ UNCHANGED <<SL_LOG_ENTRY_CACHE_SIZE, gLogLevel, accepted>>
    ELSE /\ lastCall' = Call("SL_Terminate", SL_RESULT_NOT_INITIALIZED, NoLevel)
         /\ storeCalls' = <<>>
         /\ UNCHANGED <<SL_LOG_ENTRY_CACHE_SIZE, gSQLiteDatabase, gInsertStatement,
                        gLogLevel, gLogEntries, gLogEntryCount, dbRows, dbTxnOpen,
                        accepted>>

\* ------------------------------------- SL_SetLogLevel, SL_GetLogLevel
\* A variant whose range ends below None.
SL_SetLogLevel_RejectsNone(level) ==
    /\ IF (level >= eSL_LogLevel_Diagnostic) /\ (level < eSL_LogLevel_None)
       THEN /\ gLogLevel' = level
            /\ lastCall' = Call("SL_SetLogLevel", SL_RESULT_SUCCESS, level)
       ELSE /\ gLogLevel' = gLogLevel
            /\ lastCall' = Call("SL_SetLogLevel", EINVAL, NoLevel)
    /\ storeCalls' = <<>>
    /\ UNCHANGED <<SL_LOG_ENTRY_CACHE_SIZE, gSQLiteDatabase, gInsertStatement,
                   gLogEntries, gLogEntryCount, dbRows, dbTxnOpen, accepted>>

\* A variant that stores the level before it reports it as invalid.
SL_SetLogLevel_StoresInvalid(level) ==
    /\ gLogLevel' = level
    /\ IF (level >= eSL_LogLevel_Diagnostic) /\ (level <= eSL_LogLevel_None)
       THEN lastCall' = Call("SL_SetLogLevel", SL_RESULT_SUCCESS, level)
       ELSE lastCall' = Call("SL_SetLogLevel", EINVAL, NoLevel)
    /\ storeCalls' = <<>>
    /\ UNCHANGED <<SL_LOG_ENTRY_CACHE_SIZE, gSQLiteDatabase, gInsertStatement,
                   gLogEntries, gLogEntryCount, dbRows, dbTxnOpen, accepted>>

\* A variant that empties the cache of the entries below the new threshold.
SL_SetLogLevel_DropsBuffered(level) ==
    /\ IF (level >= eSL_LogLevel_Diagnostic) /\ (level <= eSL_LogLevel_None)
       THEN /\ gLogLevel' = level
            /\ gLogEntryCount' = IF level > gLogLevel THEN 0 ELSE gLogEntryCount
            /\ lastCall' = Call("SL_SetLogLevel", SL_RESULT_SUCCESS, level)
       ELSE /\ gLogLevel' = gLogLevel
            /\ gLogEntryCount' = gLogEntryCount
            /\ lastCall' = Call("SL_SetLogLevel", EINVAL, NoLevel)
    /\ storeCalls' = <<>>
    /\ UNCHANGED <<SL_LOG_ENTRY_CACHE_SIZE, gSQLiteDatabase, gInsertStatement,
                   gLogEntries, dbRows, dbTxnOpen, accepted>>

SL_SetLogLevel(level) ==
    /\ IF (level >= eSL_LogLevel_Diagnostic) /\ (level <= eSL_LogLevel_None)
       THEN /\ gLogLevel' = level
            /\ lastCall' = Call("SL_SetLogLevel", SL_RESULT_SUCCESS, level)
       ELSE /\ gLogLevel' = gLogLevel
            /\ lastCall' = Call("SL_SetLogLevel", EINVAL, NoLevel)
    /\ storeCalls' = <<>>
    /\ UNCHANGED <<SL_LOG_ENTRY_CACHE_SIZE, gSQLiteDatabase, gInsertStatement,
                   gLogEntries, gLogEntryCount, dbRows, dbTxnOpen, accepted>>

\* levelIsNull: the caller passed a null pointer for the result.
SL_GetLogLevel(levelIsNull) ==
    /\ lastCall' = IF levelIsNull
                   THEN Call("SL_GetLogLevel", EFAULT, NoLevel)
                   ELSE Call("SL_GetLogLevel", SL_RESULT_SUCCESS, gLogLevel)
    /\ storeCalls' = <<>>
    /\ UNCHANGED <<SL_LOG_ENTRY_CACHE_SIZE, gSQLiteDatabase, gInsertStatement,
                   gLogLevel, gLogEntries, gLogEntryCount, dbRows, dbTxnOpen,
                   accepted>>

\* ------------------------------------------------- the specification
Init ==
    /\ SL_LOG_ENTRY_CACHE_SIZE \in 2 .. MaxCacheSize
    /\ gSQLiteDatabase = "NULL"
    /\ gInsertStatement = "NULL"
    /\ gLogLevel = eSL_LogLevel_Info
    /\ gLogEntries = [i \in Slots |-> ZeroEntry]
    /\ gLogEntryCount = 0
    /\ dbRows = <<>>
    /\ dbTxnOpen = FALSE
    /\ storeCalls = <<>>
    /\ lastCall = Call("none", SL_RESULT_SUCCESS, NoLevel)
    /\ accepted = <<>>

\* The faults a call of SL_Log can meet: those of a flush, when it flushes.
LogFaults(a) ==
    IF /\ LogArgResult(a) = SL_RESULT_SUCCESS
       /\ gSQLiteDatabase # "NULL"
       /\ ShouldCapture(a.level, gLogLevel)
       /\ ~CacheHasRoom(gLogEntryCount, SL_LOG_ENTRY_CACHE_SIZE)
    THEN FlushFaults(gLogEntryCount)
    ELSE {NoFault}

\* The faults a call of SL_Initialize can meet: those of its steps, when it opens.
OpenFaults(path) ==
    IF InitArgResult(path) = SL_RESULT_SUCCESS /\ gSQLiteDatabase = "NULL"
    THEN InitFaults
    ELSE {NoFault}

Next ==
    \/ \E path \in Paths : \E fault \in OpenFaults(path) : SL_Initialize(path, fault)
    \/ \E fault \in FlushFaults(gLogEntryCount) : SL_Terminate(fault)
    \/ \E level \in FewLevelArgs : SL_SetLogLevel(level)
    \/ \E levelIsNull \in BOOLEAN : SL_GetLogLevel(levelIsNull)
    \/ /\ Len(accepted) < MaxLog
       /\ \E a \in FewLogArgs, ts \in Timestamps :
             \E fault \in LogFaults(a) : SL_Log(a, ts, fault)

Spec == Init /\ [][Next]_vars

\* The same program with a store that never fails.
NextNoFail ==
    \/ \E path \in Paths : SL_Initialize(path, NoFault)
    \/ SL_Terminate(NoFault)
    \/ \E level \in FewLevelArgs : SL_SetLogLevel(level)
    \/ \E levelIsNull \in BOOLEAN : SL_GetLogLevel(levelIsNull)
    \/ /\ Len(accepted) < MaxNoFailLog
       /\ \E a \in FewLogArgs, ts \in Timestamps : SL_Log(a, ts, NoFault)

SpecNoFail == Init /\ [][NextNoFail]_vars

\* The level gate over every level and every threshold, with a store that
\* never fails.
NextGate ==
    \/ \E path \in Paths : SL_Initialize(path, NoFault)
    \/ SL_Terminate(NoFault)
    \/ \E level \in LevelArgs : SL_SetLogLevel(level)
    \/ \E levelIsNull \in BOOLEAN : SL_GetLogLevel(levelIsNull)
    \/ /\ Len(accepted) < MaxGateLog
       /\ \E a \in LogArgs, ts \in Timestamps : SL_Log(a, ts, NoFault)

SpecGate == Init /\ [][NextGate]_vars

\* ============================================================ claims
\* What the claims observe of a step and of the store calls it made.
IsLogCall == lastCall.op = "SL_Log"

IsLogStep == lastCall'.op = "SL_Log"

\* The SL_Log call of this step had valid arguments in an initialized session.
LogReachedGate == IsLogStep /\ lastCall'.level # NoLevel

FlushAttempts(calls) == {i \in DOMAIN calls : calls[i].op = "BEGIN"}

CommitSucceeded(calls) ==
    \E i \in DOMAIN calls : calls[i].op = "COMMIT" /\ calls[i].rc = SQLITE_OK

FailedCalls(calls) == {i \in DOMAIN calls : calls[i].rc # SQLITE_OK}

IsPrefix(s, t) == Len(s) <= Len(t) /\ SubSeq(t, 1, Len(s)) = s

RowsOf(es) == [i \in 1..Len(es) |-> RowOf(es[i])]

\* The occupied slots, in slot order.
Buffered == [i \in 1..gLogEntryCount |-> gLogEntries[i - 1]]

BufferUnchanged == gLogEntryCount' = gLogEntryCount /\ gLogEntries' = gLogEntries

\* C1: an SL_Log call that does not return success leaves the count and every
\* slot as they were, and an SL_Log call whose flush met a failing store call
\* does not return success.
C1_FailedLogLeavesBuffer ==
    [][IsLogStep =>
         /\ (lastCall'.result # SL_RESULT_SUCCESS => BufferUnchanged)
         /\ (FailedCalls(storeCalls') # {} => lastCall'.result # SL_RESULT_SUCCESS)]_vars

\* An SL_Log call found the cache of three slots full and its flush failed.
C1_Witness ==
    /\ IsLogCall
    /\ SL_LOG_ENTRY_CACHE_SIZE = 3
    /\ gLogEntryCount = SL_LOG_ENTRY_CACHE_SIZE - 1
    /\ FailedCalls(storeCalls) # {}
    /\ lastCall.result \notin {SL_RESULT_SUCCESS, EFAULT, EINVAL, SL_RESULT_NOT_INITIALIZED}

\* C2: with a store that never fails, the rows of the session's table are at
\* every moment a prefix of the entries the session recorded, in call order,
\* and once the session is terminated they are all of them.
C2_RowsArePrefixOfAccepted ==
    /\ IsPrefix(dbRows, RowsOf(accepted))
    /\ (gSQLiteDatabase = "NULL" => dbRows = RowsOf(accepted))

\* A session of cache size 2 recorded five entries, not all alike, through
\* four flushes of a full cache and the flush of SL_Terminate.
C2_Witness ==
    /\ lastCall.op = "SL_Terminate"
    /\ lastCall.result = SL_RESULT_SUCCESS
    /\ SL_LOG_ENTRY_CACHE_SIZE = 2
    /\ Len(dbRows) = MaxNoFailLog
    /\ dbRows = RowsOf(accepted)
    /\ dbRows[1] # dbRows[2]

\* C3: an SL_Log call that passes the gate makes no store call while the count
\* is below N-1; at count N-1 it begins exactly one transaction, whose inserts
\* are the N-1 buffered entries in slot order, and if that flush succeeds the
\* rows are committed and the count is 1 when the call returns.
C3_FlushAtCapacityOnly ==
    [][(LogReachedGate /\ lastCall'.level >= gLogLevel) =>
         /\ (gLogEntryCount < SL_LOG_ENTRY_CACHE_SIZE - 1 =>
               /\ storeCalls' = <<>>
               /\ gLogEntryCount' = gLogEntryCount + 1)
         /\ (gLogEntryCount = SL_LOG_ENTRY_CACHE_SIZE - 1 =>
               /\ Cardinality(FlushAttempts(storeCalls')) = 1
               /\ storeCalls'[1].op = "BEGIN"
               /\ (lastCall'.result = SL_RESULT_SUCCESS =>
                     /\ dbRows' = dbRows \o RowsOf(Buffered)
                     /\ gLogEntryCount' = 1))]_vars

\* The third recorded entry of a session of cache size 3 flushed the first two.
C3_Witness ==
    /\ IsLogCall
    /\ lastCall.result = SL_RESULT_SUCCESS
    /\ SL_LOG_ENTRY_CACHE_SIZE = 3
    /\ CommitSucceeded(storeCalls)
    /\ gLogEntryCount = 1
    /\ Len(dbRows) = 2
    /\ Len(accepted) = 3

\* C4: the cache size is at least 2, the count is between 0 and N-1 in every
\* state, and the slot an entry was just written to has an index in 0..N-2.
C4_CountInRange ==
    /\ SL_LOG_ENTRY_CACHE_SIZE >= 2
    /\ DOMAIN gLogEntries = 0 .. (SL_LOG_ENTRY_CACHE_SIZE - 1)
    /\ gLogEntryCount \in 0 .. (SL_LOG_ENTRY_CACHE_SIZE - 1)
    /\ ((IsLogCall /\ lastCall.result = SL_RESULT_SUCCESS
         /\ lastCall.level # NoLevel /\ lastCall.level >= gLogLevel)
        => (gLogEntryCount - 1) \in 0 .. (SL_LOG_ENTRY_CACHE_SIZE - 2))

\* The count stands at N-1 after a failed flush of a cache of three slots.
C4_Witness ==
    /\ SL_LOG_ENTRY_CACHE_SIZE = 3
    /\ gLogEntryCount = SL_LOG_ENTRY_CACHE_SIZE - 1
    /\ FailedCalls(storeCalls) # {}
    /\ gSQLiteDatabase # "NULL"
    /\ dbTxnOpen

\* C5: when a bind or a step fails for a row of a flush, no row is bound or
\* stepped after it, the next store call is ROLLBACK, no transaction stays
\* open, and the committed rows, the count and the slots are unchanged.
C5_FailedRowAbortsBatch ==
    [][\A i \in DOMAIN storeCalls' :
          (storeCalls'[i].op \in {"bind", "step"} /\ storeCalls'[i].rc # SQLITE_OK) =>
             /\ i + 1 \in DOMAIN storeCalls'
             /\ storeCalls'[i + 1].op = "ROLLBACK"
             /\ \A j \in DOMAIN storeCalls' :
                   j > i => storeCalls'[j].op \notin {"bind", "step", "COMMIT"}
             /\ ~dbTxnOpen'
             /\ dbRows' = dbRows
             /\ BufferUnchanged]_vars

\* The step of the second row of a batch failed after the first row was inserted.
C5_Witness ==
    /\ IsLogCall
    /\ \E i \in DOMAIN storeCalls :
          /\ storeCalls[i].op = "step"
          /\ storeCalls[i].row = 1
          /\ storeCalls[i].rc # SQLITE_OK
    /\ gLogEntryCount = 2

\* This step zeroed a slot that held an entry.
OccupiedSlotZeroed ==
    \E i \in 0 .. (gLogEntryCount - 1) :
        gLogEntries[i] # ZeroEntry /\ gLogEntries'[i] = ZeroEntry

\* The cache as a successful flush leaves it: empty after SL_Terminate, and
\* holding the new entry alone after SL_Log.
ClearedByFlush ==
    /\ gLogEntryCount' = (IF IsLogStep THEN 1 ELSE 0)
    /\ \A i \in DOMAIN gLogEntries' : i >= gLogEntryCount' => gLogEntries'[i] = ZeroEntry

\* SL_Initialize reached the memset of the cache: it went on to prepare the statement.
InitializeZeroedCache ==
    /\ lastCall'.op = "SL_Initialize"
    /\ \E i \in DOMAIN storeCalls' : storeCalls'[i].op = "prepare"

\* C6 as stated: the cache is cleared after every flush whose commit
\* succeeded, and the count decreases or an occupied slot is zeroed only then.
C6_ClearedOnlyByFlush ==
    [][/\ (CommitSucceeded(storeCalls') => ClearedByFlush)
       /\ ((gLogEntryCount' < gLogEntryCount \/ OccupiedSlotZeroed) =>
              CommitSucceeded(storeCalls'))]_vars

\* C6, amended: the cache is cleared after every flush whose commit succeeded;
\* the count decreases only then; an occupied slot is zeroed only then or by an
\* SL_Initialize that reaches its memset of the cache, which leaves the count.
C6_ClearedByFlushOrInitialize ==
    [][/\ (CommitSucceeded(storeCalls') => ClearedByFlush)
       /\ (gLogEntryCount' < gLogEntryCount => CommitSucceeded(storeCalls'))
       /\ (OccupiedSlotZeroed =>
              \/ CommitSucceeded(storeCalls')
              \/ (InitializeZeroedCache /\ gLogEntryCount' = gLogEntryCount))]_vars

\* SL_Terminate committed two buffered entries and left the cache empty.
C6_Witness ==
    /\ lastCall.op = "SL_Terminate"
    /\ CommitSucceeded(storeCalls)
    /\ Len(dbRows) = 2
    /\ gLogEntryCount = 0
    /\ \A i \in DOMAIN gLogEntries : gLogEntries[i] = ZeroEntry

\* C7: in an initialized session an SL_Log call with valid arguments and a
\* level below the threshold returns success, makes no store call and changes
\* neither the cache, the count, the threshold nor the store.
C7_BelowThresholdChangesNothing ==
    [][(LogReachedGate /\ lastCall'.level < gLogLevel) =>
         /\ lastCall'.result = SL_RESULT_SUCCESS
         /\ storeCalls' = <<>>
         /\ BufferUnchanged
         /\ UNCHANGED <<gLogLevel, dbRows, dbTxnOpen, gSQLiteDatabase,
                        gInsertStatement>>]_vars

\* A Warning entry met the threshold Error while the cache was at count N-1,
\* where a captured entry would have been flushed for.
C7_Witness ==
    /\ IsLogCall
    /\ lastCall.result = SL_RESULT_SUCCESS
    /\ lastCall.level = eSL_LogLevel_Warning
    /\ gLogLevel = eSL_LogLevel_Error
    /\ gSQLiteDatabase = "open"
    /\ gLogEntryCount = SL_LOG_ENTRY_CACHE_SIZE - 1
    /\ storeCalls = <<>>

\* The label of each level, by the names of the enumeration.
CanonicalLabel(level) ==
    CASE level = 0 -> kSL_DiagnosticLevelString
      [] level = 1 -> kSL_DetailLevelString
      [] level = 2 -> kSL_InfoLevelString
      [] level = 3 -> kSL_WarningLevelString
      [] level = 4 -> kSL_ErrorLevelString
      [] level = 5 -> kSL_NoneLevelString

C9_NoEntryLabelledNone ==
    /\ \A i \in DOMAIN gLogEntries : gLogEntries[i].level # kSL_NoneLevelString
    /\ \A i \in DOMAIN dbRows : dbRows[i].level # kSL_NoneLevelString

\* C10 as stated: while the threshold is None no SL_Log call changes the cache
\* or the store, and each such call with valid arguments in an initialized
\* session returns success.
C10_ThresholdNoneLogsNothing ==
    [][(IsLogStep /\ gLogLevel = eSL_LogLevel_None) =>
         /\ BufferUnchanged
         /\ dbRows' = dbRows
         /\ (LogReachedGate => lastCall'.result = SL_RESULT_SUCCESS)]_vars

\* ------------------------------------------------ claims on the session
IsTerminateStep == lastCall'.op = "SL_Terminate"

\* The calls a flush makes of the store.
FlushOps == {"BEGIN", "bind", "step", "reset", "COMMIT", "ROLLBACK"}

\* The calls that release the statement and the handle.
ReleaseOps == {"finalize", "close"}

\* The log arguments that pass every argument check, and the paths that do.
ValidLogArgs == {a \in LogArgs \cup FewLogArgs :
                    /\ a.message # NULL
                    /\ a.message # <<>>
                    /\ a.level \in LogLevels}

ValidPaths == {path \in Paths : path # NULL /\ path # <<>>}

\* C11: an SL_Terminate in an initialized session whose flush fails returns
\* the code of the failed store call, finalizes the statement it holds, closes
\* the handle last and clears both; in the state SL_Terminate leaves, an
\* SL_Log with valid arguments returns NotInitialized and an SL_Initialize
\* with a valid path does not return AlreadyInitialized.
C11_FailedTerminateFlushReleases ==
    [][/\ (IsTerminateStep /\ gSQLiteDatabase # "NULL"
              /\ FailedCalls(storeCalls') # {}) =>
            /\ \E i \in FailedCalls(storeCalls') :
                  lastCall'.result = storeCalls'[i].rc
            /\ lastCall'.result # SL_RESULT_SUCCESS
            /\ gSQLiteDatabase' = "NULL"
            /\ gInsertStatement' = "NULL"
            /\ storeCalls'[Len(storeCalls')].op = "close"
            /\ (gInsertStatement # "NULL" =>
                  \E i \in DOMAIN storeCalls' : storeCalls'[i].op = "finalize")
       /\ (lastCall.op = "SL_Terminate"
              /\ lastCall.result \notin {SL_RESULT_SUCCESS, SL_RESULT_NOT_INITIALIZED}) =>
            /\ \A a \in ValidLogArgs, ts \in Timestamps :
                  SL_Log(a, ts, NoFault) =>
                      lastCall'.result = SL_RESULT_NOT_INITIALIZED
            /\ \A path \in ValidPaths, fault \in InitFaults :
                  SL_Initialize(path, fault) =>
                      lastCall'.result # SL_RESULT_ALREADY_INITIALIZED]_vars

\* SL_Terminate returned the code of a failed commit, with two entries left
\* in the cache, and released the statement and the handle.
C11_Witness ==
    /\ lastCall.op = "SL_Terminate"
    /\ lastCall.result = SQLITE_FULL
    /\ \E i \in DOMAIN storeCalls :
          storeCalls[i].op = "COMMIT" /\ storeCalls[i].rc = SQLITE_FULL
    /\ \E i \in DOMAIN storeCalls : storeCalls[i].op = "finalize"
    /\ gLogEntryCount = 2
    /\ gSQLiteDatabase = "NULL"
    /\ gInsertStatement = "NULL"

\* C12: an SL_Terminate in an initialized session begins exactly one flush
\* if the count is above 0 and none if it is 0, and every call of the flush
\* comes before the finalize and the close, which are made in every case.
C12_OneFlushBeforeRelease ==
    [][(IsTerminateStep /\ gSQLiteDatabase # "NULL") =>
         /\ Cardinality(FlushAttempts(storeCalls')) = (IF gLogEntryCount > 0 THEN 1 ELSE 0)
         /\ (gLogEntryCount = 0 =>
               \A i \in DOMAIN storeCalls' : storeCalls'[i].op \in ReleaseOps)
         /\ \A i, j \in DOMAIN storeCalls' :
               (storeCalls'[i].op \in FlushOps /\ storeCalls'[j].op \in ReleaseOps)
                  => i < j
         /\ \E j \in DOMAIN storeCalls' : storeCalls'[j].op = "close"]_vars

\* SL_Terminate flushed two entries with one transaction, then finalized and closed.
C12_Witness ==
    /\ lastCall.op = "SL_Terminate"
    /\ lastCall.result = SL_RESULT_SUCCESS
    /\ Cardinality(FlushAttempts(storeCalls)) = 1
    /\ Len(dbRows) = 2
    /\ Len(storeCalls) >= 2
    /\ storeCalls[Len(storeCalls) - 1].op = "finalize"
    /\ storeCalls[Len(storeCalls)].op = "close"

\* An SL_Initialize has returned success since the start and since the last
\* SL_Terminate: only the last step of a successful SL_Initialize sets the
\* insert statement, and only SL_Terminate clears it.
InitializeSucceeded == gInsertStatement # "NULL"

\* The state of the logger and of the store, without the record of the last call.
SessionState ==
    <<gSQLiteDatabase, gInsertStatement, gLogLevel, gLogEntries, gLogEntryCount,
      dbRows, dbTxnOpen>>

\* C13 as stated: an SL_Terminate made when no SL_Initialize has succeeded
\* since the start or the last SL_Terminate returns NotInitialized, makes no
\* store call and leaves the cache, the count, the threshold and the store.
C13_TerminateWithoutSession ==
    [][(IsTerminateStep /\ ~InitializeSucceeded) =>
         /\ lastCall'.result = SL_RESULT_NOT_INITIALIZED
         /\ storeCalls' = <<>>
         /\ BufferUnchanged
         /\ UNCHANGED <<gLogLevel, dbRows, dbTxnOpen, gSQLiteDatabase>>]_vars

\* C14: an SL_Initialize with a valid path made while a handle is held returns
\* AlreadyInitialized, makes no store call and leaves the handle, the
\* statement, the session's table, the cache, the count and the threshold.
C14_SecondInitializeRejected ==
    [][\A path \in ValidPaths, fault \in InitFaults :
          (gSQLiteDatabase # "NULL" /\ SL_Initialize(path, fault)) =>
             /\ lastCall'.result = SL_RESULT_ALREADY_INITIALIZED
             /\ storeCalls' = <<>>
             /\ UNCHANGED SessionState]_vars

\* SL_Initialize was rejected in a session that holds two entries and a committed row.
C14_Witness ==
    /\ lastCall.op = "SL_Initialize"
    /\ lastCall.result = SL_RESULT_ALREADY_INITIALIZED
    /\ gSQLiteDatabase = "open"
    /\ gInsertStatement = "ready"
    /\ gLogEntryCount = 2
    /\ Len(dbRows) >= 1
    /\ gLogLevel # eSL_LogLevel_Info

\* C15: an SL_Log with valid arguments made while no handle is held, as
\* before any SL_Initialize and after every SL_Terminate, returns
\* NotInitialized at every level and threshold, makes no store call and
\* leaves the cache and the count.
C15_LogWithoutSession ==
    [][/\ (IsTerminateStep => gSQLiteDatabase' = "NULL")
       /\ \A a \in ValidLogArgs, ts \in Timestamps :
             (gSQLiteDatabase = "NULL" /\ SL_Log(a, ts, NoFault)) =>
                /\ lastCall'.result = SL_RESULT_NOT_INITIALIZED
                /\ storeCalls' = <<>>
                /\ BufferUnchanged
                /\ UNCHANGED <<dbRows, dbTxnOpen, gLogLevel>>]_vars

\* SL_Log at level Error was refused at the threshold Detail after a session
\* that committed an entry.
C15_Witness ==
    /\ IsLogCall
    /\ lastCall.result = SL_RESULT_NOT_INITIALIZED
    /\ gSQLiteDatabase = "NULL"
    /\ gLogLevel = eSL_LogLevel_Detail
    /\ Len(dbRows) = 1
    /\ gLogEntryCount = 0

\* The last call was an SL_Initialize that returned success.
InitializeJustSucceeded ==
    lastCall.op = "SL_Initialize" /\ lastCall.result = SL_RESULT_SUCCESS

\* C16 as stated: right after every SL_Initialize that returns success the
\* count is 0 and every slot is zeroed.
C16_EmptyAfterInitialize ==
    InitializeJustSucceeded =>
        /\ gLogEntryCount = 0
        /\ \A i \in DOMAIN gLogEntries : gLogEntries[i] = ZeroEntry

\* C17 as stated: an SL_GetLogLevel made right after an SL_Initialize that
\* returned success returns Info.
C17_InfoAfterInitialize ==
    [][(InitializeJustSucceeded /\ SL_GetLogLevel(FALSE)) =>
         /\ lastCall'.result = SL_RESULT_SUCCESS
         /\ lastCall'.level = eSL_LogLevel_Info]_vars

\* C18: SL_SetLogLevel with a level of Diagnostic..None returns success and
\* makes it the threshold; no other call, and no failed SL_SetLogLevel,
\* changes the threshold; SL_GetLogLevel with a place for the result returns
\* success and the threshold, whether or not a handle is held.  So it returns
\* the level of the most recent successful SL_SetLogLevel.
C18_GetReturnsLastSet ==
    [][/\ \A level \in LogLevels :
             SL_SetLogLevel(level) =>
                /\ lastCall'.result = SL_RESULT_SUCCESS
                /\ gLogLevel' = level
       /\ (~(lastCall'.op = "SL_SetLogLevel" /\ lastCall'.result = SL_RESULT_SUCCESS)
              => gLogLevel' = gLogLevel)
       /\ (SL_GetLogLevel(FALSE) =>
              /\ lastCall'.result = SL_RESULT_SUCCESS
              /\ lastCall'.level = gLogLevel)]_vars

\* SL_GetLogLevel returned None with no handle held; None is set only by SL_SetLogLevel.
C18_Witness ==
    /\ lastCall.op = "SL_GetLogLevel"
    /\ lastCall.result = SL_RESULT_SUCCESS
    /\ lastCall.level = eSL_LogLevel_None
    /\ gLogLevel = eSL_LogLevel_None
    /\ gSQLiteDatabase = "NULL"

\* C19: SL_SetLogLevel with a value outside Diagnostic..None returns EINVAL
\* and leaves the threshold, and an SL_GetLogLevel that follows it returns
\* that threshold.
C19_InvalidLevelRejected ==
    [][/\ \A level \in LevelArgs \ LogLevels :
             SL_SetLogLevel(level) =>
                /\ lastCall'.result = EINVAL
                /\ gLogLevel' = gLogLevel
                /\ gLogLevel' \in LogLevels
       /\ (lastCall.op = "SL_SetLogLevel" /\ lastCall.result = EINVAL
              /\ SL_GetLogLevel(FALSE)) =>
             /\ lastCall'.result = SL_RESULT_SUCCESS
             /\ lastCall'.level = gLogLevel]_vars

\* SL_SetLogLevel refused a value at the threshold Warning, which stayed.
C19_Witness ==
    /\ lastCall.op = "SL_SetLogLevel"
    /\ lastCall.result = EINVAL
    /\ gLogLevel = eSL_LogLevel_Warning
    /\ gSQLiteDatabase = "open"

\* The log arguments and the paths that fail an argument check.
InvalidLogArgs == (LogArgs \cup FewLogArgs) \ ValidLogArgs

InvalidPaths == Paths \ ValidPaths

\* C20: SL_Log with a null or empty message or a level outside
\* Diagnostic..None returns EFAULT or EINVAL, and SL_Initialize with a null or
\* empty path returns EFAULT or EINVAL, whether or not a handle is held; these
\* calls make no store call and change nothing.
C20_ArgumentsCheckedFirst ==
    [][/\ \A a \in InvalidLogArgs, ts \in Timestamps :
             SL_Log(a, ts, NoFault) =>
                /\ lastCall'.result =
                      (IF a.level \notin LogLevels THEN EINVAL
                       ELSE IF a.message = NULL THEN EFAULT
                       ELSE EINVAL)
                /\ storeCalls' = <<>>
                /\ UNCHANGED SessionState
       /\ \A path \in InvalidPaths, fault \in InitFaults :
             SL_Initialize(path, fault) =>
                /\ lastCall'.result = (IF path = NULL THEN EFAULT ELSE EINVAL)
                /\ storeCalls' = <<>>
                /\ UNCHANGED SessionState]_vars

\* SL_Initialize returned EINVAL for an empty path in a session that holds an entry.
C20_Witness ==
    /\ lastCall.op = "SL_Initialize"
    /\ lastCall.result = EINVAL
    /\ storeCalls = <<>>
    /\ gSQLiteDatabase = "open"
    /\ gInsertStatement = "ready"
    /\ gLogEntryCount = 1

\* ------------------------------------------------ claims on the codes
\* The codes returned for invalid arguments.
ArgumentCodes == {EFAULT, EINVAL}

\* C21 as stated: a call in which a store call failed never returns one of
\* the codes that are returned for invalid arguments.
C21_StoreCodesNotArgumentCodes ==
    FailedCalls(storeCalls) # {} => lastCall.result \notin ArgumentCodes

\* The first failing call of a flush among the store calls of a public call.
FirstFlushFailure(calls) ==
    LET failed == {i \in FailedCalls(calls) : calls[i].op \in FlushOps}
    IN  CHOOSE i \in failed : \A j \in failed : i <= j

\* C22: when a store call of the flush made by SL_Log or SL_Terminate fails,
\* the call returns the code of the first failing store call of the flush,
\* also when the ROLLBACK that follows fails with another code.
C22_FirstFailureCodeReturned ==
    [][((IsLogStep \/ IsTerminateStep)
          /\ \E i \in FailedCalls(storeCalls') : storeCalls'[i].op \in FlushOps) =>
         /\ lastCall'.result = storeCalls'[FirstFlushFailure(storeCalls')].rc
         /\ lastCall'.result # SQLITE_OK]_vars

\* SL_Log returned the code of a failed step although the ROLLBACK after it
\* failed with another code.
C22_Witness ==
    /\ IsLogCall
    /\ lastCall.result = SQLITE_FULL
    /\ Len(storeCalls) >= 2
    /\ storeCalls[Len(storeCalls)].op = "ROLLBACK"
    /\ storeCalls[Len(storeCalls)].rc = SQLITE_ERROR
    /\ storeCalls[Len(storeCalls) - 1].op = "step"
    /\ storeCalls[Len(storeCalls) - 1].rc = SQLITE_FULL

\* ------------------------------------------------ the end-to-end scenario
\* One session with a store that never fails: SL_Initialize, SL_SetLogLevel,
\* an SL_Log below the threshold, SL_GetLogLevel, an SL_Log at or above the
\* threshold, SL_Terminate; over every threshold and every pair of levels.
NextScenario ==
    \/ /\ lastCall.op = "none"
       /\ \E path \in ValidPaths : SL_Initialize(path, NoFault)
    \/ /\ lastCall.op = "SL_Initialize"
       /\ \E level \in LogLevels : SL_SetLogLevel(level)
    \/ /\ lastCall.op \in {"SL_SetLogLevel", "SL_GetLogLevel"}
       /\ \E a \in ValidLogArgs, ts \in Timestamps :
             /\ IF lastCall.op = "SL_SetLogLevel"
                THEN a.level < gLogLevel
                ELSE a.level >= gLogLevel
             /\ SL_Log(a, ts, NoFault)
    \/ /\ lastCall.op = "SL_Log"
       /\ lastCall.level < gLogLevel
       /\ SL_GetLogLevel(FALSE)
    \/ /\ lastCall.op = "SL_Log"
       /\ lastCall.level >= gLogLevel
       /\ SL_Terminate(NoFault)

SpecScenario == Init /\ [][NextScenario]_vars

\* C23: in the scenario every call returns success, the threshold is the
\* level SL_SetLogLevel was given and SL_GetLogLevel returns it, and after
\* SL_Terminate the session's table holds exactly one row, with the label of
\* the level of the second SL_Log: Warning for a Warning entry at the
\* threshold Warning, whatever the lower level of the first SL_Log.
C23_ScenarioLeavesOneRow ==
    [][/\ lastCall'.result = SL_RESULT_SUCCESS
       /\ (lastCall'.op = "SL_SetLogLevel" => gLogLevel' = lastCall'.level)
       /\ (lastCall'.op # "SL_SetLogLevel" => gLogLevel' = gLogLevel)
       /\ (lastCall'.op = "SL_GetLogLevel" => lastCall'.level = gLogLevel)
       /\ (IsTerminateStep =>
             /\ Len(dbRows') = 1
             /\ dbRows'[1].level = CanonicalLabel(lastCall.level)
             /\ dbRows'[1].message # <<>>
             /\ (lastCall.level = eSL_LogLevel_Warning =>
                    dbRows'[1].level = kSL_WarningLevelString))]_vars

\* The scenario ended at the threshold Warning with one row, labelled Warning.
C23_Witness ==
    /\ lastCall.op = "SL_Terminate"
    /\ lastCall.result = SL_RESULT_SUCCESS
    /\ gLogLevel = eSL_LogLevel_Warning
    /\ Len(dbRows) = 1
    /\ dbRows[1].level = kSL_WarningLevelString
    /\ gLogEntryCount = 0

\* ------------------------------------------------ texts at the field bounds
\* A text of n characters.
TextOfLength(n) == [i \in 1..n |-> 65]

\* The input lengths around a field's bound.
TextLengths(bound) == {bound - 2, bound - 1, bound, bound + 1}

\* Log arguments with short texts in every field.
ShortArgs ==
    [message |-> <<77>>, level |-> eSL_LogLevel_Info, fileName |-> <<120>>,
     functionName |-> <<102>>, lineNumber |-> 0, tag |-> <<116>>,
     supplementalData |-> <<115>>]

\* Log arguments with one text field at a length around its bound.
TextArgs ==
    {[ShortArgs EXCEPT !.message = TextOfLength(n)] :
        n \in TextLengths(SL_MESSAGE_STRING_LENGTH)}
    \cup {[ShortArgs EXCEPT !.fileName = TextOfLength(n)] :
             n \in TextLengths(SL_FILE_NAME_STRING_LENGTH)}
    \cup {[ShortArgs EXCEPT !.functionName = TextOfLength(n)] :
             n \in TextLengths(SL_FUNCTION_NAME_STRING_LENGTH)}
    \cup {[ShortArgs EXCEPT !.tag = TextOfLength(n)] :
             n \in TextLengths(SL_TAG_STRING_LENGTH)}
    \cup {[ShortArgs EXCEPT !.supplementalData = TextOfLength(n)] :
             n \in TextLengths(SL_SUPPLEMENTAL_DATA_STRING_LENGTH)}

\* A session that fills the cache with such entries.  It stops at the count
\* at which SL_Log flushes: a flush reads each field as a C string, and RowOf
\* does not describe the read of a field that holds no terminator.
NextText ==
    \/ /\ gSQLiteDatabase = "NULL"
       /\ \E path \in ValidPaths : SL_Initialize(path, NoFault)
    \/ /\ gSQLiteDatabase # "NULL"
       /\ CacheHasRoom(gLogEntryCount, SL_LOG_ENTRY_CACHE_SIZE)
       /\ \E a \in TextArgs, ts \in Timestamps : SL_Log(a, ts, NoFault)

SpecText == Init /\ [][NextText]_vars

Min(a, b) == IF a <= b THEN a ELSE b

\* A field of `bound` bytes holds the first min(L, bound-1) characters of the
\* input and, after them, a terminator.
StoredTruncated(stored, src, bound) ==
    stored = SubSeq(src, 1, Min(Len(src), bound - 1))

\* C24 as stated: SL_AddLogEntry stores of every text field the first
\* min(L, B-1) characters of the input, followed by a terminator inside the
\* field's B bytes.
C24_FieldsTruncatedAndTerminated ==
    [][\A a \in TextArgs, ts \in Timestamps :
          (SL_Log(a, ts, NoFault) /\ gLogEntryCount' = gLogEntryCount + 1) =>
             LET e == gLogEntries'[gLogEntryCount]
             IN  /\ StoredTruncated(e.message, a.message, SL_MESSAGE_STRING_LENGTH)
                 /\ StoredTruncated(e.fileName, a.fileName, SL_FILE_NAME_STRING_LENGTH)
                 /\ StoredTruncated(e.functionName, a.functionName,
                                    SL_FUNCTION_NAME_STRING_LENGTH)
                 /\ StoredTruncated(e.tag, a.tag, SL_TAG_STRING_LENGTH)
                 /\ StoredTruncated(e.supplementalData, a.supplementalData,
                                    SL_SUPPLEMENTAL_DATA_STRING_LENGTH)]_vars

\* ------------------------------------------------------- SL_Result_String
SL_RESULT_RESERVED_START == -1
SL_RESULT_FAILURE == SL_RESULT_RESERVED_START
SL_RESULT_RESERVED_END == -31

\* The result-string table, indexed from 0 as in the source.
kSL_ResultStrings ==
    [i \in 0 .. 3 |->
        CASE i = 0 -> ""
          [] i = 1 -> "Unknown error code"
          [] i = 2 -> "Not initialized"
          [] i = 3 -> "Already initialized"]

\* The description the C library gives of a system result code.
StrError(code) ==
    CASE code = EFAULT -> "Bad address"
      [] code = EINVAL -> "Invalid argument"
      [] OTHER -> "system error description"

\* What a read of kSL_ResultStrings[index] past the table's end can yield:
\* any pointer, one that reads as some text or one that cannot be read.
OutOfBoundsReads ==
    {kSL_ResultStrings[i] : i \in DOMAIN kSL_ResultStrings}
    \cup {"arbitrary text", "invalid pointer"}

\* The result codes SL_Result_String is called with.
ResultCodeArgs == (SL_RESULT_RESERVED_END - 2) .. (EINVAL + 1)

\* (uint32_t)(-1.0 * resultCode): for the codes -31 .. -1 that reach it the
\* product lies in 1 .. 31, where the conversion to uint32_t is exact.
ResultStringIndex(resultCode) == 0 - resultCode

ResultStringSaid(resultCode, index, resultString) ==
    [op |-> "SL_Result_String", result |-> resultCode, level |-> NoLevel,
     index |-> index, text |-> resultString]

\* SL_Result_String(resultCode); lastCall records the code, the table index
\* (-1 when the table is not indexed by the code) and the string returned.
SL_Result_String(resultCode) ==
    /\ IF resultCode > SL_RESULT_SUCCESS
       THEN lastCall' = ResultStringSaid(resultCode, -1, StrError(resultCode))
       ELSE IF /\ resultCode <= SL_RESULT_RESERVED_START
               /\ resultCode >= SL_RESULT_RESERVED_END
            THEN LET index == ResultStringIndex(resultCode)
                 IN  IF index \in DOMAIN kSL_ResultStrings
                     THEN lastCall' = ResultStringSaid(resultCode, index,
                                                       kSL_ResultStrings[index])
                     ELSE \E read \in OutOfBoundsReads :
                            lastCall' = ResultStringSaid(resultCode, index, read)
            ELSE lastCall' = ResultStringSaid(resultCode, -1, kSL_ResultStrings[0])
    /\ UNCHANGED <<SL_LOG_ENTRY_CACHE_SIZE, gSQLiteDatabase, gInsertStatement,
                   gLogLevel, gLogEntries, gLogEntryCount, dbRows, dbTxnOpen,
                   storeCalls, accepted>>

NextResultString == \E resultCode \in ResultCodeArgs : SL_Result_String(resultCode)

SpecResultString == Init /\ [][NextResultString]_vars

\* The strings a code without a description of its own may be given.
FallbackStrings == {kSL_ResultStrings[0], kSL_ResultStrings[1]}

\* C25 as stated: for every code in the reserved range -31 .. -1 the table
\* index lies inside the 4-entry table, NotInitialized and AlreadyInitialized
\* map to their own descriptions, and every other code of the range maps to
\* the fallback string.
C25_ResultStringIndexInTable ==
    lastCall.op = "SL_Result_String" =>
       /\ (lastCall.result \in SL_RESULT_RESERVED_END .. SL_RESULT_RESERVED_START =>
             lastCall.index \in DOMAIN kSL_ResultStrings)
       /\ (lastCall.result = SL_RESULT_NOT_INITIALIZED =>
             lastCall.text = "Not initialized")
       /\ (lastCall.result = SL_RESULT_ALREADY_INITIALIZED =>
             lastCall.text = "Already initialized")
       /\ (lastCall.result < SL_RESULT_ALREADY_INITIALIZED =>
             lastCall.text \in FallbackStrings)

\* The number of positions of the sequence that hold the row.
Occurrences(row, rows) == Cardinality({i \in DOMAIN rows : rows[i] = row})

\* C26 as stated: every committed row is the image of exactly one SL_Log call
\* that was accepted and returned success: no row has the empty message of a
\* zeroed slot, and no row is committed more often than SL_Log calls produced it.
C26_RowsComeFromAcceptedCalls ==
    \A i \in DOMAIN dbRows :
        /\ dbRows[i] # RowOf(ZeroEntry)
        /\ Occurrences(dbRows[i], dbRows) <= Occurrences(dbRows[i], RowsOf(accepted))

\* The entry of slot i is, after the step, still in the cache as it was.
EntryKept(i) == i < gLogEntryCount' /\ gLogEntries'[i] = gLogEntries[i]

\* The entry of slot i was committed by the flush of this step.
EntryCommitted(i) ==
    /\ CommitSucceeded(storeCalls')
    /\ \E k \in DOMAIN dbRows' : k > Len(dbRows) /\ dbRows'[k] = RowOf(gLogEntries[i])

\* An SL_Log call that recorded an entry and returned success left it in the cache.
CapturedEntryBuffered ==
    (IsLogStep /\ lastCall'.result = SL_RESULT_SUCCESS /\ accepted' # accepted) =>
       /\ gLogEntryCount' >= 1
       /\ accepted' = Append(accepted, gLogEntries'[gLogEntryCount' - 1])

\* C27 as stated: every entry SL_Log recorded is in the cache with its
\* contents until a flush whose commit succeeded has written it to the store;
\* an entry leaves the cache in no other way.
C27_EntriesLeaveOnlyByCommit ==
    [][/\ CapturedEntryBuffered
       /\ \A i \in 0 .. (gLogEntryCount - 1) :
             gLogEntries[i] # ZeroEntry => (EntryKept(i) \/ EntryCommitted(i))]_vars

\* C27, amended: every entry SL_Log recorded is in the cache with its contents
\* until a flush whose commit succeeded has written it to the store, or until
\* an SL_Initialize reaches its memset of the cache, which discards the
\* entries a termination with a failed flush left behind.
C27_EntriesLeaveByCommitOrInitialize ==
    [][/\ CapturedEntryBuffered
       /\ \A i \in 0 .. (gLogEntryCount - 1) :
             gLogEntries[i] # ZeroEntry =>
                \/ EntryKept(i)
                \/ EntryCommitted(i)
                \/ InitializeZeroedCache]_vars

\* The flush of a full cache of three slots failed at its commit; SL_Log
\* returned the failure and both entries are still in the cache, not in the store.
C27_Witness ==
    /\ IsLogCall
    /\ SL_LOG_ENTRY_CACHE_SIZE = 3
    /\ gLogEntryCount = 2
    /\ gLogEntries[0] # ZeroEntry
    /\ gLogEntries[1] # ZeroEntry
    /\ \E i \in DOMAIN storeCalls : storeCalls[i].op = "COMMIT" /\ storeCalls[i].rc # SQLITE_OK
    /\ lastCall.result # SL_RESULT_SUCCESS
    /\ dbRows = <<>>

\* This step made a flush whose BEGIN succeeded.
TransactionBegun ==
    \E i \in DOMAIN storeCalls' :
        storeCalls'[i].op = "BEGIN" /\ storeCalls'[i].rc = SQLITE_OK

RollbackIssued(calls) == \E i \in DOMAIN calls : calls[i].op = "ROLLBACK"

\* C28 as stated: a flush whose BEGIN succeeded ends with a successful commit
\* or with a ROLLBACK, also when the commit itself fails, and no transaction
\* is open on the store when the public call returns.
C28_TransactionAlwaysEnded ==
    [][TransactionBegun =>
         /\ CommitSucceeded(storeCalls') \/ RollbackIssued(storeCalls')
         /\ ~dbTxnOpen']_vars

\* Every step among the store calls is followed at once by a reset.
EveryStepReset(calls) ==
    \A i \in DOMAIN calls :
        calls[i].op = "step" =>
           i + 1 \in DOMAIN calls /\ calls[i + 1].op = "reset"

\* C29 as stated: every step of the insert statement, a failed one included,
\* is followed by a reset before SL_ProcessTransaction returns, and the
\* statement is never left stepped when SL_Log returns, so that a retry can bind.
C29_StatementResetAfterFlush ==
    [][(IsLogStep \/ IsTerminateStep) =>
         /\ EveryStepReset(storeCalls')
         /\ gInsertStatement' # "stepped"]_vars

\* The last call was an SL_Initialize that a store call failed.
InitializeFailedAtStore ==
    lastCall.op = "SL_Initialize" /\ FailedCalls(storeCalls) # {}

\* C30 as stated: after an SL_Initialize that failed at the store no handle is
\* held and no statement is prepared; the next SL_Log and the next
\* SL_Terminate return NotInitialized (or an argument code), and the next
\* SL_Initialize is not rejected as AlreadyInitialized.
C30_FailedInitializeLeavesNoSession ==
    [][InitializeFailedAtStore =>
         /\ gSQLiteDatabase = "NULL"
         /\ gInsertStatement = "NULL"
         /\ (IsLogStep =>
               lastCall'.result \in {SL_RESULT_NOT_INITIALIZED, EFAULT, EINVAL})
         /\ (IsTerminateStep => lastCall'.result = SL_RESULT_NOT_INITIALIZED)
         /\ (lastCall'.op = "SL_Initialize" =>
               lastCall'.result # SL_RESULT_ALREADY_INITIALIZED)]_vars

\* The number of recorded entries that are not yet rows of the store.
Uncommitted == Len(accepted) - Len(dbRows)

\* C31: with a store that never fails, the rows are the recorded entries in
\* call order up to the last at most N-1 of them, which are the occupied slots
\* of the cache: an entry is committed at the latest by the flush of the
\* (N-1)-th recorded SL_Log call after it.  After a successful SL_Terminate
\* the cache is empty and every recorded entry of the session is a row.
C31_AcceptedCommittedInTime ==
    /\ IsPrefix(dbRows, RowsOf(accepted))
    /\ Uncommitted <= SL_LOG_ENTRY_CACHE_SIZE - 1
    /\ (gSQLiteDatabase # "NULL" =>
          /\ Uncommitted = gLogEntryCount
          /\ \A i \in 1 .. gLogEntryCount :
                Buffered[i] = accepted[Len(dbRows) + i])
    /\ ((lastCall.op = "SL_Terminate" /\ lastCall.result = SL_RESULT_SUCCESS) =>
          /\ gLogEntryCount = 0
          /\ \A i \in DOMAIN gLogEntries : gLogEntries[i] = ZeroEntry
          /\ Uncommitted = 0
          /\ dbRows = RowsOf(accepted))

\* In a session of cache size 3 the fifth recorded entry sits alone in the
\* cache: the flushes made by the third and by the fifth SL_Log call committed
\* the four entries before it, two each.
C31_Witness ==
    /\ IsLogCall
    /\ lastCall.result = SL_RESULT_SUCCESS
    /\ SL_LOG_ENTRY_CACHE_SIZE = 3
    /\ Len(accepted) = 5
    /\ Len(dbRows) = 4
    /\ gLogEntryCount = 1
    /\ CommitSucceeded(storeCalls)

\* The store calls of one insert execution for slot i: the eight binds in
\* column order, the step and the reset, all successful.
InsertCalls(i) ==
    [c \in 1..8 |-> StoreCall("bind", i, c, SQLITE_OK)]
    \o <<StoreCall("step", i, 0, SQLITE_OK), StoreCall("reset", i, 0, SQLITE_OK)>>

RECURSIVE InsertCallsUpTo(_)
\* The insert executions for the slots 0 .. k-1, in slot order.
InsertCallsUpTo(k) ==
    IF k = 0 THEN <<>> ELSE InsertCallsUpTo(k - 1) \o InsertCalls(k - 1)

\* The store calls of a successful flush of k slots.
FlushCalls(k) ==
    <<StoreCall("BEGIN", 0, 0, SQLITE_OK)>>
    \o InsertCallsUpTo(k)
    \o <<StoreCall("COMMIT", 0, 0, SQLITE_OK)>>

\* C32: a flush of a cache with count k that commits makes one BEGIN, then k
\* insert executions, the j-th binding the eight columns of slot j-1, then one
\* COMMIT, and nothing else before the commit; it adds k rows, the values of
\* the slots 0 .. k-1 in slot order, and nothing of the slots from k on.
C32_FlushInsertsOccupiedSlotsInOrder ==
    [][CommitSucceeded(storeCalls') =>
         LET k == gLogEntryCount
             calls == FlushCalls(k)
         IN  /\ k >= 1
             /\ IsPrefix(calls, storeCalls')
             /\ \A i \in DOMAIN storeCalls' :
                   i > Len(calls) => storeCalls'[i].op \in {"finalize", "close"}
             /\ Len(dbRows') = Len(dbRows) + k
             /\ dbRows' = dbRows \o [j \in 1..k |-> RowOf(gLogEntries[j - 1])]]_vars

\* SL_Terminate flushed a cache of three slots that held two entries of
\* different levels: two rows in slot order, none for the third slot.
C32_Witness ==
    /\ lastCall.op = "SL_Terminate"
    /\ SL_LOG_ENTRY_CACHE_SIZE = 3
    /\ IsPrefix(FlushCalls(2), storeCalls)
    /\ Len(dbRows) = 2
    /\ dbRows[1].level # dbRows[2].level
    /\ dbRows = RowsOf(accepted)

OptionalFields == {"fileName", "functionName", "tag", "supplementalData"}

\* C33 as stated: the optional columns of every row hold what an SL_Log call
\* passed for the field, NULL for an absent field and the text for a present
\* one; no call passes an empty text, so no optional column holds one.
C33_AbsentFieldsBoundAsNull ==
    \A i \in DOMAIN dbRows : \A f \in OptionalFields :
        /\ dbRows[i][f] # <<>>
        /\ \E a \in FewLogArgs : dbRows[i][f] = a[f]

\* ------------------------------------------- several callers, one lock
\* The callers of a multi-threaded embedding and the entries they may record.
MaxCallerLog == 3

Callers == {1, 2}

\* The first character of a caller's messages.
CallerMark(c) == 64 + c

\* The number of entries the caller has recorded so far.
RecordedBy(c) ==
    Cardinality({i \in DOMAIN accepted : accepted[i].message[1] = CallerMark(c)})

\* The arguments of the caller's next SL_Log call: its messages are numbered
\* in the order in which the caller records them.
CallerArgs(c) ==
    ArgsOf({<<CallerMark(c), 49 + RecordedBy(c)>>},
           {eSL_LogLevel_Detail, eSL_LogLevel_Info}, {<<120>>})

\* Every public call runs as a whole under the external lock, so one step is
\* one whole call of one caller; the calls of the callers interleave freely.
\* The session is opened before the callers start and closed after them.
NextCallers ==
    \/ /\ lastCall.op = "none"
       /\ \E path \in ValidPaths : SL_Initialize(path, NoFault)
    \/ /\ gSQLiteDatabase # "NULL"
       /\ Len(accepted) < MaxCallerLog
       /\ \E c \in Callers : \E a \in CallerArgs(c), ts \in Timestamps :
             \E fault \in LogFaults(a) : SL_Log(a, ts, fault)
    \/ /\ gSQLiteDatabase # "NULL"
       /\ \E level \in {eSL_LogLevel_Detail, eSL_LogLevel_Info} : SL_SetLogLevel(level)
    \/ /\ gSQLiteDatabase # "NULL"
       /\ SL_GetLogLevel(FALSE)
    \/ /\ gSQLiteDatabase # "NULL"
       /\ SL_Terminate(NoFault)

SpecCallers == Init /\ [][NextCallers]_vars

\* The rows of the store that came from the caller, in row order.
RowsOfCaller(c) ==
    SelectSeq(dbRows, LAMBDA r : r.message # <<>> /\ r.message[1] = CallerMark(c))

\* C34: when every call runs as a whole under one lock, then under every
\* interleaving of the callers' calls the count stays in 0 .. N-1, the rows
\* followed by the occupied slots are exactly the recorded entries in call
\* order (none lost, none overwritten, none twice), and each caller's rows are
\* that caller's entries in the order in which it recorded them.
C34_WholeCallsInterleaveSafely ==
    /\ gLogEntryCount \in 0 .. (SL_LOG_ENTRY_CACHE_SIZE - 1)
    /\ dbRows \o RowsOf(Buffered) = RowsOf(accepted)
    /\ \A c \in Callers :
          \A k \in DOMAIN RowsOfCaller(c) : RowsOfCaller(c)[k].message[2] = 48 + k

\* Two callers recorded three entries, interleaved, in a session of cache
\* size 2; after SL_Terminate all three are rows, the first caller's two in
\* its order around the second caller's one.
C34_Witness ==
    /\ lastCall.op = "SL_Terminate"
    /\ lastCall.result = SL_RESULT_SUCCESS
    /\ SL_LOG_ENTRY_CACHE_SIZE = 2
    /\ Len(dbRows) = MaxCallerLog
    /\ Len(RowsOfCaller(1)) = 2
    /\ Len(RowsOfCaller(2)) = 1
    /\ dbRows[1].message[1] = CallerMark(1)
    /\ dbRows[2].message[1] = CallerMark(2)
    /\ dbRows[3].message[1] = CallerMark(1)

\* This step was a call of SL_SetLogLevel or of SL_GetLogLevel.
IsLevelStep == lastCall'.op \in {"SL_SetLogLevel", "SL_GetLogLevel"}

\* C35: SL_SetLogLevel and SL_GetLogLevel make no store call and leave the
\* slots, the count, the handle, the statement and the rows as they are, and
\* SL_GetLogLevel leaves the threshold too; a flush that commits writes every
\* occupied slot whatever the threshold is by then.
C35_LevelCallsChangeOnlyThreshold ==
    [][/\ (IsLevelStep =>
             /\ storeCalls' = <<>>
             /\ UNCHANGED <<SL_LOG_ENTRY_CACHE_SIZE, gLogEntries, gLogEntryCount,
                            gSQLiteDatabase, gInsertStatement, dbRows, dbTxnOpen>>
             /\ (lastCall'.op = "SL_GetLogLevel" => gLogLevel' = gLogLevel)
             /\ (lastCall'.result # SL_RESULT_SUCCESS => gLogLevel' = gLogLevel))
       /\ (CommitSucceeded(storeCalls') =>
             dbRows' = dbRows \o RowsOf(Buffered))]_vars

\* An Info entry was recorded, the threshold was then raised to Warning, and
\* SL_Terminate committed the entry all the same.
C35_Witness ==
    /\ lastCall.op = "SL_Terminate"
    /\ lastCall.result = SL_RESULT_SUCCESS
    /\ gLogLevel = eSL_LogLevel_Warning
    /\ Len(dbRows) = 1
    /\ dbRows[1].level = kSL_InfoLevelString
    /\ dbRows = RowsOf(accepted)

\* The store calls of SL_Initialize in their fixed order, by operation and
\* number: open, the table, the views Diagnostic, Detail, Info, Warning and
\* Error, the insert statement.
SetupOrder ==
    <<[op |-> "open", row |-> 0], [op |-> "create_table", row |-> 0]>>
    \o [v \in 1..5 |-> [op |-> "create_view", row |-> v]]
    \o <<[op |-> "prepare", row |-> 0]>>

\* C36: an SL_Initialize that opens the store makes its store calls in the
\* fixed order, stops at the first that fails and returns its code, and
\* zeroes the cache exactly when the table and the five views were created,
\* before it prepares the statement; otherwise the cache is left as it was.
C36_SetupStepsInOrder ==
    [][(lastCall'.op = "SL_Initialize" /\ storeCalls' # <<>>) =>
         LET n == Len(storeCalls')
         IN  /\ n <= Len(SetupOrder)
             /\ \A i \in 1..n :
                   /\ storeCalls'[i].op = SetupOrder[i].op
                   /\ storeCalls'[i].row = SetupOrder[i].row
                   /\ (i < n => storeCalls'[i].rc = SQLITE_OK)
             /\ lastCall'.result = storeCalls'[n].rc
             /\ (n < Len(SetupOrder) => storeCalls'[n].rc # SQLITE_OK)
             /\ IF storeCalls'[n].op = "prepare"
                THEN \A i \in DOMAIN gLogEntries' : gLogEntries'[i] = ZeroEntry
                ELSE gLogEntries' = gLogEntries
             /\ gInsertStatement' =
                   (IF n = Len(SetupOrder) /\ storeCalls'[n].rc = SQLITE_OK
                    THEN "ready" ELSE "NULL")]_vars

\* SL_Initialize stopped at the Info view: five store calls, the last one
\* failed, and the entry a failed termination flush had left is still in the cache.
C36_Witness ==
    /\ lastCall.op = "SL_Initialize"
    /\ Len(storeCalls) = 5
    /\ storeCalls[5].op = "create_view"
    /\ storeCalls[5].row = 3
    /\ storeCalls[5].rc # SQLITE_OK
    /\ lastCall.result = storeCalls[5].rc
    /\ gLogEntryCount >= 1
    /\ gLogEntries[0] # ZeroEntry

\* Every slot from the count on is entirely zero.
FreeSlotsZero(entries, count) ==
    \A i \in DOMAIN entries : i >= count => entries[i] = ZeroEntry

\* The text an optional field holds after SL_AddLogEntry wrote to a zeroed slot.
TextOrEmpty(src) == IF src = NULL THEN <<>> ELSE src

\* C37: between public calls every slot with an index from the count on is
\* entirely zero, so SL_AddLogEntry writes into a zeroed slot, and a text
\* shorter than its bound less one, copied without terminator, reads back as
\* that text, ended by the zero bytes that were there.
C37_FreeSlotsAreZero ==
    [][/\ FreeSlotsZero(gLogEntries, gLogEntryCount)
       /\ FreeSlotsZero(gLogEntries', gLogEntryCount')
       /\ (IsLogStep /\ accepted' # accepted) =>
             \A a \in FewLogArgs, ts \in Timestamps :
                SL_Log(a, ts, NoFault) =>
                   LET e == gLogEntries'[gLogEntryCount' - 1]
                   IN  /\ CString(e.message) = a.message
                       /\ CString(e.level) = LevelString(a.level)
                       /\ CString(e.fileName) = TextOrEmpty(a.fileName)
                       /\ CString(e.functionName) = TextOrEmpty(a.functionName)
                       /\ CString(e.tag) = TextOrEmpty(a.tag)
                       /\ CString(e.supplementalData) = TextOrEmpty(a.supplementalData)]_vars

\* After the flush of a full cache of three slots the new entry is in slot 0
\* and the two slots that were flushed are zero again.
C37_Witness ==
    /\ IsLogCall
    /\ SL_LOG_ENTRY_CACHE_SIZE = 3
    /\ CommitSucceeded(storeCalls)
    /\ gLogEntryCount = 1
    /\ gLogEntries[0] # ZeroEntry
    /\ gLogEntries[1] = ZeroEntry
    /\ gLogEntries[2] = ZeroEntry
    /\ Len(dbRows) = 2

====
